---- MODULE Spec2Model ----
(***************************************************************************)
(* Rate-limited, multi-key batch dispatch engine of the written-resolution *)
(* processor: the RateLimiter (services/rateLimiter.ts), the retry policy  *)
(* (utils/retry.ts) and the orchestrator processFiles (services/gemini.ts).*)
(*                                                                         *)
(* Time is in milliseconds.  A token count is held as an integer number of *)
(* 1/60000 token (TokenUnit to a token), which makes the lazy refill       *)
(* elapsed * rpm / 60000 exact integer arithmetic.  The last section takes *)
(* one bucket in the doubles of the program, where the refill is rounded.  *)
(***************************************************************************)
EXTENDS Integers, Sequences, FiniteSets, TLC

VARIABLES
    now,                  \* Date.now()
    localStorage,         \* [bucket: id -> record, daily: id -> record]
    rateLimiterInstance,  \* the module-level singleton, or NoInstance
    lastOp,               \* the last limiter operation and what it returned
    opSeq,                \* number of limiter operations made so far
    ticks,                \* number of clock advances made so far
    pc,                   \* where processFiles stands
    apiKeys,              \* processFiles: the credentials submitted
    images,               \* processFiles: the work items submitted
    batches,              \* createDynamicBatches(images)
    batchIndex,           \* index of the batch in progress, counted from 1
    statuses,             \* ctx.statuses: image id -> FileProcessingStatus
    processedIds,         \* ctx.processedIds
    results,              \* ctx.results
    aborted,              \* signal.aborted
    outcome,              \* how the processFiles call ended
    loc,                  \* local variables of the functions on the stack
    progress,             \* the snapshot last handed to onProgress
    ghost,                \* history kept for the properties only
    extracted,            \* a client response and what processImage/processBatch made of it
    retry,                \* a call of withRetry: its options, locals and history
    planned,              \* a list of work items and what createDynamicBatches made of it
    acquire,              \* a call of acquireKey on any limiter: its locals and history
    restart               \* one bucket in the program's arithmetic, and what is stored of it

limiterVars == <<now, localStorage, rateLimiterInstance>>
probeVars == <<lastOp, opSeq, ticks>>
orchVars == <<pc, apiKeys, images, batches, batchIndex, statuses, processedIds,
              results, aborted, outcome, loc, progress, ghost>>
unitVars == <<extracted, retry, planned, acquire, restart>>
rlVars == <<limiterVars, probeVars>>
vars == <<limiterVars, probeVars, orchVars, unitVars>>

----------------------------------------------------------------------------
(* Bounds of the model *)

MaxOps == 2           \* limiter operations in a run of SpecRL
MaxTicks == 2         \* clock advances in a run of SpecRL
MaxSteps == 4         \* calls and clock advances together in a run of SpecRL

----------------------------------------------------------------------------
(* Program constants *)

TokenUnit == 60000    \* getRefillRate: rpm / 60_000 tokens per millisecond
DayMs == 86400000     \* one day, the period of getNextMidnightPT
FallbackWaitMs == 60000   \* getWaitTime: no key has daily quota
RpdUnlimited == -1    \* TIER_LIMITS[tier].rpd === null

Tiers == {"free", "tier1", "tier2"}

TIER_LIMITS ==
    [free  |-> [rpm |-> 15,   rpd |-> 250],
     tier1 |-> [rpm |-> 1000, rpd |-> 10000],
     tier2 |-> [rpm |-> 2000, rpd |-> RpdUnlimited]]

KeyIds == {"k1", "k2"}

NullKey == [id |-> "null", tier |-> "null"]
NoInstance == [keys |-> <<>>, buckets |-> <<>>, dailyUsage |-> <<>>, live |-> FALSE]

----------------------------------------------------------------------------
(* Helpers *)

Min(a, b) == IF a <= b THEN a ELSE b
Max(a, b) == IF a >= b THEN a ELSE b

\* Math.ceil(a / b) for b > 0
CeilDiv(a, b) == -((-a) \div b)

\* Map.set / Map.delete on a function with a finite domain
Put(f, k, v) == [x \in (DOMAIN f) \cup {k} |-> IF x = k THEN v ELSE f[x]]
Remove(f, k) == [x \in (DOMAIN f) \ {k} |-> f[x]]

EmptyMap == [x \in {} |-> 0]

SeqToSet(s) == {s[i] : i \in 1..Len(s)}

----------------------------------------------------------------------------
(* rateLimiter.ts: utility and storage functions *)

\* The next midnight, Pacific Time, after t.  The clock of the model counts
\* from a Pacific midnight.  The source formats t to whole seconds before it
\* computes the distance to midnight, so the result carries the milliseconds
\* of t.
getNextMidnightPT(t) == ((t \div DayMs) + 1) * DayMs + (t % 1000)

Capacity(tier) == TIER_LIMITS[tier].rpm * TokenUnit

loadBucketState(ls, keyId, tier, t) ==
    LET defaultState == [tokens |-> Capacity(tier), maxTokens |-> Capacity(tier),
                         lastRefill |-> t]
    IN IF keyId \notin DOMAIN ls.bucket THEN defaultState
       ELSE LET parsed == ls.bucket[keyId]
            IN IF parsed.numeric
               THEN [tokens |-> Min(parsed.tokens, Capacity(tier)),
                     maxTokens |-> Capacity(tier),
                     lastRefill |-> parsed.lastRefill]
               ELSE defaultState

saveBucketState(ls, keyId, state) ==
    [ls EXCEPT !.bucket = Put(@, keyId,
        [numeric |-> TRUE, tokens |-> state.tokens, lastRefill |-> state.lastRefill])]

loadDailyUsage(ls, keyId, t) ==
    LET defaultUsage == [count |-> 0, resetAt |-> getNextMidnightPT(t)]
    IN IF keyId \notin DOMAIN ls.daily THEN defaultUsage
       ELSE LET parsed == ls.daily[keyId]
            IN IF t >= parsed.resetAt THEN defaultUsage ELSE parsed

saveDailyUsage(ls, keyId, usage) ==
    [ls EXCEPT !.daily = Put(@, keyId, usage)]

----------------------------------------------------------------------------
(* rateLimiter.ts: class RateLimiter.  An operation takes the limiter rl,  *)
(* the storage ls and the time t and yields [rl, ls, ret].                 *)

\* A refill that forgets the tokens the bucket already held.
refillBucketNoCarry(bucket, tier, t) ==
    [bucket EXCEPT !.tokens = Min(bucket.maxTokens,
                                  (t - bucket.lastRefill) * TIER_LIMITS[tier].rpm),
                   !.lastRefill = t]

refillBucket(bucket, tier, t) ==
    LET elapsed == t - bucket.lastRefill
        refill == elapsed * TIER_LIMITS[tier].rpm
    IN [bucket EXCEPT !.tokens = Min(bucket.maxTokens, bucket.tokens + refill),
                      !.lastRefill = t]

\* A check that resets the day's count and passes whatever the count.
checkDailyLimitAnyCount(rl, ls, keyId, tier, t) ==
    LET limits == TIER_LIMITS[tier]
    IN IF limits.rpd = RpdUnlimited THEN [rl |-> rl, ls |-> ls, ret |-> TRUE]
       ELSE LET usage0 == IF keyId \in DOMAIN rl.dailyUsage
                          THEN rl.dailyUsage[keyId]
                          ELSE loadDailyUsage(ls, keyId, t)
                passed == t >= usage0.resetAt
                usage == IF passed
                         THEN [count |-> 0, resetAt |-> getNextMidnightPT(t)]
                         ELSE usage0
            IN [rl |-> [rl EXCEPT !.dailyUsage = Put(@, keyId, usage)],
                ls |-> IF passed THEN saveDailyUsage(ls, keyId, usage) ELSE ls,
                ret |-> TRUE]

checkDailyLimit(rl, ls, keyId, tier, t) ==
    LET limits == TIER_LIMITS[tier]
    IN IF limits.rpd = RpdUnlimited THEN [rl |-> rl, ls |-> ls, ret |-> TRUE]
       ELSE LET usage0 == IF keyId \in DOMAIN rl.dailyUsage
                          THEN rl.dailyUsage[keyId]
                          ELSE loadDailyUsage(ls, keyId, t)
                passed == t >= usage0.resetAt
                usage == IF passed
                         THEN [count |-> 0, resetAt |-> getNextMidnightPT(t)]
                         ELSE usage0
            IN [rl |-> [rl EXCEPT !.dailyUsage = Put(@, keyId, usage)],
                ls |-> IF passed THEN saveDailyUsage(ls, keyId, usage) ELSE ls,
                ret |-> usage.count < limits.rpd]

\* A comparison that lets a later credential win a tie.
BetterKeyOrEqual(tokens, maxTokens) == tokens >= TokenUnit /\ tokens >= maxTokens

\* getBestKey, line 262: does this bucket replace the best one so far?
BetterKey(tokens, maxTokens) == tokens >= TokenUnit /\ tokens > maxTokens

RECURSIVE getBestKeyLoop(_, _, _, _, _, _)
getBestKeyLoop(rl, ls, i, bestKey, maxTokens, t) ==
    IF i > Len(rl.keys) THEN [rl |-> rl, ls |-> ls, ret |-> bestKey]
    ELSE LET key == rl.keys[i]
         IN IF key.id \notin DOMAIN rl.buckets
            THEN getBestKeyLoop(rl, ls, i + 1, bestKey, maxTokens, t)
            ELSE LET bucket == refillBucket(rl.buckets[key.id], key.tier, t)
                     rl1 == [rl EXCEPT !.buckets[key.id] = bucket]
                     d == checkDailyLimit(rl1, ls, key.id, key.tier, t)
                 IN IF ~d.ret
                    THEN getBestKeyLoop(d.rl, d.ls, i + 1, bestKey, maxTokens, t)
                    ELSE IF BetterKey(bucket.tokens, maxTokens)
                         THEN getBestKeyLoop(d.rl, d.ls, i + 1, key, bucket.tokens, t)
                         ELSE getBestKeyLoop(d.rl, d.ls, i + 1, bestKey, maxTokens, t)

getBestKey(rl, ls, t) == getBestKeyLoop(rl, ls, 1, NullKey, 0, t)

\* this.keys.find((k) => k.id === keyId): the first entry with that id
FindKey(keys, keyId) ==
    IF \E i \in 1..Len(keys) : keys[i].id = keyId
    THEN keys[CHOOSE i \in 1..Len(keys) :
                /\ keys[i].id = keyId
                /\ \A j \in 1..(i - 1) : keys[j].id # keyId]
    ELSE NullKey

\* A test that passes any bucket that is not empty.
HasTokenAny(bucket) == bucket.tokens > 0

\* consumeRequest, line 285: the refilled bucket holds a whole token
HasToken(bucket) == bucket.tokens >= TokenUnit

consumeRequest(rl, ls, keyId, t) ==
    LET key == FindKey(rl.keys, keyId)
    IN IF key = NullKey \/ keyId \notin DOMAIN rl.buckets
       THEN [rl |-> rl, ls |-> ls, ret |-> FALSE]
       ELSE LET bucket == refillBucket(rl.buckets[keyId], key.tier, t)
                rl1 == [rl EXCEPT !.buckets[keyId] = bucket]
            IN IF ~HasToken(bucket)
               THEN [rl |-> rl1, ls |-> ls, ret |-> FALSE]
               ELSE LET taken == [bucket EXCEPT !.tokens = @ - TokenUnit]
                        usage0 == IF keyId \in DOMAIN rl.dailyUsage
                                  THEN rl.dailyUsage[keyId]
                                  ELSE [count |-> 0, resetAt |-> getNextMidnightPT(t)]
                        usage == [usage0 EXCEPT !.count = @ + 1]
                    IN [rl |-> [rl EXCEPT !.buckets[keyId] = taken,
                                          !.dailyUsage = Put(@, keyId, usage)],
                        ls |-> saveDailyUsage(saveBucketState(ls, keyId, taken),
                                              keyId, usage),
                        ret |-> TRUE]

\* Empties the bucket and leaves its refill time as it was.
markExhaustedKeepsRefill(rl, ls, keyId, t) ==
    IF keyId \notin DOMAIN rl.buckets
    THEN [rl |-> rl, ls |-> ls, ret |-> FALSE]
    ELSE LET bucket == [rl.buckets[keyId] EXCEPT !.tokens = 0]
         IN [rl |-> [rl EXCEPT !.buckets[keyId] = bucket],
             ls |-> saveBucketState(ls, keyId, bucket),
             ret |-> TRUE]

markExhausted(rl, ls, keyId, t) ==
    IF keyId \notin DOMAIN rl.buckets
    THEN [rl |-> rl, ls |-> ls, ret |-> FALSE]
    ELSE LET bucket == [rl.buckets[keyId] EXCEPT !.tokens = 0, !.lastRefill = t]
         IN [rl |-> [rl EXCEPT !.buckets[keyId] = bucket],
             ls |-> saveBucketState(ls, keyId, bucket),
             ret |-> TRUE]

Infinity == -1

\* The scan with "immediately available" read as any fraction of a token.
RECURSIVE getWaitTimeLoopAnyFraction(_, _, _, _, _)
getWaitTimeLoopAnyFraction(rl, ls, i, minWait, t) ==
    IF i > Len(rl.keys)
    THEN [rl |-> rl, ls |-> ls,
          ret |-> IF minWait = Infinity THEN FallbackWaitMs ELSE minWait]
    ELSE LET key == rl.keys[i]
         IN IF key.id \notin DOMAIN rl.buckets
            THEN getWaitTimeLoopAnyFraction(rl, ls, i + 1, minWait, t)
            ELSE LET d == checkDailyLimit(rl, ls, key.id, key.tier, t)
                 IN IF ~d.ret
                    THEN getWaitTimeLoopAnyFraction(d.rl, d.ls, i + 1, minWait, t)
                    ELSE LET bucket == refillBucket(d.rl.buckets[key.id], key.tier, t)
                             rl1 == [d.rl EXCEPT !.buckets[key.id] = bucket]
                             tokensNeeded == TokenUnit - bucket.tokens
                             waitMs == CeilDiv(tokensNeeded, TIER_LIMITS[key.tier].rpm)
                         IN IF bucket.tokens > 0
                            THEN [rl |-> rl1, ls |-> d.ls, ret |-> 0]
                            ELSE getWaitTimeLoopAnyFraction(rl1, d.ls, i + 1,
                                     IF minWait = Infinity THEN waitMs
                                     ELSE Min(minWait, waitMs), t)

RECURSIVE getWaitTimeLoop(_, _, _, _, _)
getWaitTimeLoop(rl, ls, i, minWait, t) ==
    IF i > Len(rl.keys)
    THEN [rl |-> rl, ls |-> ls,
          ret |-> IF minWait = Infinity THEN FallbackWaitMs ELSE minWait]
    ELSE LET key == rl.keys[i]
         IN IF key.id \notin DOMAIN rl.buckets
            THEN getWaitTimeLoop(rl, ls, i + 1, minWait, t)
            ELSE LET d == checkDailyLimit(rl, ls, key.id, key.tier, t)
                 IN IF ~d.ret
                    THEN getWaitTimeLoop(d.rl, d.ls, i + 1, minWait, t)
                    ELSE LET bucket == refillBucket(d.rl.buckets[key.id], key.tier, t)
                             rl1 == [d.rl EXCEPT !.buckets[key.id] = bucket]
                             tokensNeeded == TokenUnit - bucket.tokens
                             \* Math.ceil commutes with the minimum
                             waitMs == CeilDiv(tokensNeeded, TIER_LIMITS[key.tier].rpm)
                         IN IF bucket.tokens >= TokenUnit
                            THEN [rl |-> rl1, ls |-> d.ls, ret |-> 0]
                            ELSE getWaitTimeLoop(rl1, d.ls, i + 1,
                                     IF minWait = Infinity THEN waitMs
                                     ELSE Min(minWait, waitMs), t)

\* The scan starting at the second credential.
getWaitTimeFromSecond(rl, ls, t) == getWaitTimeLoop(rl, ls, 2, Infinity, t)

getWaitTime(rl, ls, t) == getWaitTimeLoop(rl, ls, 1, Infinity, t)

\* One entry of getKeyStatuses, computed on the limiter as refilled so far.
KeyStatusOf(rl, key) ==
    LET hasBucket == key.id \in DOMAIN rl.buckets
        limits == TIER_LIMITS[key.tier]
        availableTokens == IF hasBucket THEN rl.buckets[key.id].tokens \div TokenUnit
                           ELSE 0
        dailyUsed == IF key.id \in DOMAIN rl.dailyUsage
                     THEN rl.dailyUsage[key.id].count ELSE 0
        hasDailyQuota == limits.rpd = RpdUnlimited \/ dailyUsed < limits.rpd
    IN [keyId |-> key.id, tier |-> key.tier,
        availableTokens |-> availableTokens,
        maxTokens |-> limits.rpm,
        dailyUsed |-> dailyUsed,
        dailyLimit |-> limits.rpd,
        isAvailable |-> availableTokens >= 1 /\ hasDailyQuota,
        isExhausted |-> ~hasDailyQuota
                        \/ (hasBucket /\ rl.buckets[key.id].tokens < TokenUnit)]

RECURSIVE getKeyStatusesLoop(_, _, _, _)
getKeyStatusesLoop(rl, i, acc, t) ==
    IF i > Len(rl.keys) THEN [rl |-> rl, ret |-> acc]
    ELSE LET key == rl.keys[i]
             rl1 == IF key.id \in DOMAIN rl.buckets
                    THEN [rl EXCEPT !.buckets[key.id] =
                              refillBucket(rl.buckets[key.id], key.tier, t)]
                    ELSE rl
         IN getKeyStatusesLoop(rl1, i + 1, Append(acc, KeyStatusOf(rl1, key)), t)

getKeyStatuses(rl, ls, t) ==
    LET r == getKeyStatusesLoop(rl, 1, <<>>, t)
    IN [rl |-> r.rl, ls |-> ls, ret |-> r.ret]

\* initializeFromStorage / the first loop of updateKeys, for one key
RECURSIVE initKeysLoop(_, _, _, _, _)
initKeysLoop(rl, ls, keys, i, t) ==
    IF i > Len(keys) THEN rl
    ELSE LET key == keys[i]
             buckets1 == IF key.id \in DOMAIN rl.buckets THEN rl.buckets
                         ELSE Put(rl.buckets, key.id,
                                  refillBucket(loadBucketState(ls, key.id, key.tier, t),
                                               key.tier, t))
             daily1 == IF key.id \in DOMAIN rl.dailyUsage THEN rl.dailyUsage
                       ELSE Put(rl.dailyUsage, key.id, loadDailyUsage(ls, key.id, t))
         IN initKeysLoop([rl EXCEPT !.buckets = buckets1, !.dailyUsage = daily1],
                         ls, keys, i + 1, t)

\* new RateLimiter(keys)
NewRateLimiter(ls, keys, t) ==
    initKeysLoop([keys |-> keys, buckets |-> EmptyMap, dailyUsage |-> EmptyMap,
                  live |-> TRUE], ls, keys, 1, t)

\* A second loop that keeps every bucket.
KeptIdsAll(rl, keys) == DOMAIN rl.buckets

\* updateKeys, second loop: the ids of buckets that are kept
KeptIds(rl, keys) == {id \in DOMAIN rl.buckets : \E i \in 1..Len(keys) : keys[i].id = id}

updateKeys(rl, ls, keys, t) ==
    LET rl1 == initKeysLoop([rl EXCEPT !.keys = keys], ls, keys, 1, t)
        gone == (DOMAIN rl1.buckets) \ KeptIds(rl1, keys)
    IN [rl1 EXCEPT !.buckets = [id \in (DOMAIN rl1.buckets) \ gone |-> rl1.buckets[id]],
                   !.dailyUsage = [id \in (DOMAIN rl1.dailyUsage) \ gone |->
                                       rl1.dailyUsage[id]]]

clearKeyData(rl, ls, keyId) ==
    [rl |-> [rl EXCEPT !.buckets = Remove(@, keyId), !.dailyUsage = Remove(@, keyId)],
     ls |-> [bucket |-> Remove(ls.bucket, keyId), daily |-> Remove(ls.daily, keyId)],
     ret |-> TRUE]

getRateLimiter(inst, ls, keys, t) ==
    IF ~inst.live THEN NewRateLimiter(ls, keys, t) ELSE updateKeys(inst, ls, keys, t)

----------------------------------------------------------------------------
(* The limiter driven by an arbitrary caller: specification SpecRL *)

\* The run starts four seconds before a Pacific midnight.
T0 == DayMs - 4000

\* Clock advances: half a free-tier token, and a full minute.
TickSteps == {2000, 60000}

\* Key lists a caller may hand to getRateLimiter: distinct ids; k1 is of any
\* tier and k2 a free one; two credentials are both free, in either order, or
\* a tier1 credential followed by a free one.
KeyEntries == {[id |-> "k1", tier |-> tr] : tr \in Tiers} \cup {[id |-> "k2", tier |-> "free"]}
KeyLists ==
    {ks \in UNION {[1..n -> KeyEntries] : n \in 0..Cardinality(KeyIds)} :
        /\ \A i, j \in 1..Len(ks) : i # j => ks[i].id # ks[j].id
        /\ Len(ks) = 2 => \/ \A i \in 1..2 : ks[i].tier = "free"
                          \/ ks[1].tier = "tier1"}

\* What an earlier session may have left in localStorage for a key: nothing,
\* an empty bucket, a bucket saved under a larger tier, a record that is not
\* numeric, a negative count beside a daily record without resetAt, and a
\* refill time ahead of the clock.
\* The resetAt of a daily record that has none: Date.now() >= undefined is
\* false at any time, as it is for a resetAt that no run reaches.
NoResetAt == 20 * DayMs

BucketRecord(numeric, tokens, lastRefill) ==
    [x \in {"k1"} |-> [numeric |-> numeric, tokens |-> tokens, lastRefill |-> lastRefill]]
DailyRecord(count, resetAt) ==
    [x \in {"k1"} |-> [count |-> count, resetAt |-> resetAt]]

StorageStates ==
    { [bucket |-> EmptyMap, daily |-> EmptyMap],
      [bucket |-> BucketRecord(TRUE, 0, T0 - 2000), daily |-> DailyRecord(249, DayMs)],
      [bucket |-> BucketRecord(TRUE, 2000 * TokenUnit, T0 - 60000),
       daily |-> DailyRecord(250, DayMs)],
      [bucket |-> BucketRecord(FALSE, 0, 0), daily |-> DailyRecord(5, T0 - 1000)],
      [bucket |-> BucketRecord(TRUE, 0 - TokenUnit, T0 - 2000),
       daily |-> DailyRecord(5, NoResetAt)],
      [bucket |-> BucketRecord(TRUE, 3 * TokenUnit, T0 + 2000),
       daily |-> DailyRecord(5, DayMs)] }

\* No credential is known to have been marked exhausted.
NoMark == [id |-> "null", at |-> 0, tier |-> "null"]

NoOp == [op |-> "none", keyId |-> "null", ok |-> FALSE, key |-> NullKey,
         wait |-> 0, statuses |-> <<>>, marked |-> NoMark]

\* Local variables before any call is on the stack.
NoLoc ==
    [image |-> 0, caller |-> "none", retryCount |-> 0,
     akRetry |-> 0, akFor |-> "none", sleepMs |-> 0, bestKey |-> NullKey,
     batchKey |-> NullKey, attempt |-> 0, callFor |-> "none",
     low |-> <<>>, lowPos |-> 0, fbPos |-> 0, error |-> "none"]

NoProgress == [emitted |-> FALSE]

\* History kept beside the program's state: whether a cancellation check has
\* seen the signal, how often a terminal status was set per item, the batches
\* whose call failed, the items that met a failed call or found no key, and
\* the number and kind of the batch responses delivered, and the number of
\* client calls that failed, the calls of processImage per item and of
\* processBatch per batch; the statuses and key statuses as they stood at
\* the latest emission; the first snapshot emitted, as its holder reads it
\* now, with the statuses and key statuses as they stood at its emission.
NoGhost ==
    [abortObserved |-> FALSE, recorded |-> <<>>, batchFailed |-> {},
     itemTrouble |-> {}, responses |-> 0, respKind |-> "none", failures |-> 0,
     singleCalls |-> <<>>, batchCalls |-> <<>>,
     shown |-> [statuses |-> <<>>, keyStatuses |-> <<>>],
     first |-> [snap |-> NoProgress, statuses |-> <<>>, keyStatuses |-> <<>>]]

\* processFiles has not been called.
OrchIdle ==
    /\ pc = "idle"
    /\ apiKeys = <<>>
    /\ images = <<>>
    /\ batches = <<>>
    /\ batchIndex = 0
    /\ statuses = EmptyMap
    /\ processedIds = {}
    /\ results = <<>>
    /\ aborted = FALSE
    /\ outcome = "none"
    /\ loc = NoLoc
    /\ progress = NoProgress
    /\ ghost = NoGhost

\* No response has been converted.
NoExtract == [path |-> "none", raw |-> <<>>, out |-> <<>>, error |-> "none"]

\* withRetry has not been called.  calls counts the invocations of fn,
\* errors lists what they threw, returns what they returned, delays the
\* sleeps made, retries the attempt numbers handed to onRetry.
NoRetry ==
    [pc |-> "idle", maxRetries |-> 0, baseDelayMs |-> 0, maxDelayMs |-> 0,
     attempt |-> 0, signal |-> FALSE,
     lastError |-> "Unknown error", delay |-> 0, result |-> "none", thrown |-> "none",
     calls |-> 0, errors |-> <<>>, returns |-> <<>>, delays |-> <<>>, retries |-> <<>>,
     retryErrors |-> <<>>]

\* createDynamicBatches has not been called.
NoPlan == [called |-> FALSE, imgs |-> <<>>, batches |-> <<>>, again |-> <<>>]

\* acquireKey has not been called.  checks counts the checks of the signal,
\* polls the calls of getBestKey; best and wait are what getBestKey and
\* getWaitTime returned last; reported lists the waits handed to
\* reportWaiting, slept the sleeps made.
NoAcquire ==
    [pc |-> "idle", retryCount |-> 0, signal |-> FALSE, checks |-> 0, polls |-> 0,
     best |-> "none", wait |-> 0, reported |-> <<>>, slept |-> <<>>,
     result |-> "none"]

\* No limiter constructed yet.  tier is the tier of the one credential,
\* clock is Date.now() in ms, bucket the TokenBucketState in memory and
\* saved the record under BUCKET_PREFIX; tokens are written in binary.
NoRestart ==
    [pc |-> "idle", tier |-> "none", clock |-> 0, calls |-> 0,
     bucket |-> [tokens |-> <<>>, lastRefill |-> 0],
     saved |-> [has |-> FALSE, tokens |-> <<>>, lastRefill |-> 0]]

UnitIdle ==
    /\ extracted = NoExtract
    /\ retry = NoRetry
    /\ planned = NoPlan
    /\ acquire = NoAcquire
    /\ restart = NoRestart

InitRL ==
    /\ OrchIdle
    /\ UnitIdle
    /\ now = T0
    /\ localStorage \in StorageStates
    /\ \E keys \in KeyLists :
          rateLimiterInstance = NewRateLimiter(localStorage, keys, now)
    /\ lastOp = NoOp
    /\ opSeq = 0
    /\ ticks = 0

\* The clock advances between the calls of a session.
Tick ==
    /\ ticks < MaxTicks
    /\ opSeq < MaxOps
    /\ ticks + opSeq < MaxSteps
    /\ \E dt \in TickSteps : now' = now + dt
    /\ ticks' = ticks + 1
    /\ UNCHANGED <<localStorage, rateLimiterInstance, lastOp, opSeq, orchVars, unitVars>>

\* The last markExhausted whose effect still stands after the call op left
\* the limiter rl: a later markExhausted replaces it; clearKeyData and a
\* successful consume of the credential, and a change of its tier, end it.
MarkAfter(op, rl) ==
    LET m == lastOp.marked
    IN IF op.op = "markExhausted"
       THEN IF op.ok
            THEN [id |-> op.keyId, at |-> now, tier |-> FindKey(rl.keys, op.keyId).tier]
            ELSE m
       ELSE IF \/ op.op = "clearKeyData" /\ op.keyId = m.id
               \/ op.op = "consumeRequest" /\ op.keyId = m.id /\ op.ok
               \/ /\ op.op = "getRateLimiter"
                  /\ FindKey(rl.keys, m.id) # NullKey
                  /\ FindKey(rl.keys, m.id).tier # m.tier
       THEN NoMark
       ELSE m

\* Common shape of a limiter call r == [rl, ls, ret] recorded as op.
Called(r, op) ==
    /\ rateLimiterInstance' = r.rl
    /\ localStorage' = r.ls
    /\ lastOp' = [op EXCEPT !.marked = MarkAfter(op, r.rl)]
    /\ opSeq' = opSeq + 1
    /\ UNCHANGED <<now, ticks, orchVars, unitVars>>

RLGetRateLimiter ==
    /\ opSeq < MaxOps
    /\ ticks + opSeq < MaxSteps
    /\ \E keys \in KeyLists :
          Called([rl |-> getRateLimiter(rateLimiterInstance, localStorage, keys, now),
                  ls |-> localStorage],
                 [NoOp EXCEPT !.op = "getRateLimiter"])

RLGetBestKey ==
    /\ opSeq < MaxOps
    /\ ticks + opSeq < MaxSteps
    /\ rateLimiterInstance.live
    /\ LET r == getBestKey(rateLimiterInstance, localStorage, now)
       IN Called(r, [NoOp EXCEPT !.op = "getBestKey", !.key = r.ret])

RLConsumeRequest ==
    /\ opSeq < MaxOps
    /\ ticks + opSeq < MaxSteps
    /\ rateLimiterInstance.live
    /\ \E keyId \in KeyIds :
          LET r == consumeRequest(rateLimiterInstance, localStorage, keyId, now)
          IN Called(r, [NoOp EXCEPT !.op = "consumeRequest", !.keyId = keyId,
                                    !.ok = r.ret])

RLMarkExhausted ==
    /\ opSeq < MaxOps
    /\ ticks + opSeq < MaxSteps
    /\ rateLimiterInstance.live
    /\ \E keyId \in KeyIds :
          LET r == markExhausted(rateLimiterInstance, localStorage, keyId, now)
          IN Called(r, [NoOp EXCEPT !.op = "markExhausted", !.keyId = keyId,
                                    !.ok = r.ret])

RLGetWaitTime ==
    /\ opSeq < MaxOps
    /\ ticks + opSeq < MaxSteps
    /\ rateLimiterInstance.live
    /\ LET r == getWaitTime(rateLimiterInstance, localStorage, now)
       IN Called(r, [NoOp EXCEPT !.op = "getWaitTime", !.wait = r.ret])

RLGetKeyStatuses ==
    /\ opSeq < MaxOps
    /\ ticks + opSeq < MaxSteps
    /\ rateLimiterInstance.live
    /\ LET r == getKeyStatuses(rateLimiterInstance, localStorage, now)
       IN Called(r, [NoOp EXCEPT !.op = "getKeyStatuses", !.statuses = r.ret])

RLClearKeyData ==
    /\ opSeq < MaxOps
    /\ ticks + opSeq < MaxSteps
    /\ rateLimiterInstance.live
    /\ \E keyId \in KeyIds :
          Called(clearKeyData(rateLimiterInstance, localStorage, keyId),
                 [NoOp EXCEPT !.op = "clearKeyData", !.keyId = keyId])

\* resetRateLimiter(), or the page being reloaded: the singleton is dropped
\* and the next getRateLimiter builds a limiter from localStorage.
RLResetRateLimiter ==
    /\ opSeq < MaxOps
    /\ ticks + opSeq < MaxSteps
    /\ rateLimiterInstance.live
    /\ Called([rl |-> NoInstance, ls |-> localStorage],
              [NoOp EXCEPT !.op = "resetRateLimiter"])

NextRL ==
    \/ Tick
    \/ RLGetRateLimiter
    \/ RLGetBestKey
    \/ RLConsumeRequest
    \/ RLMarkExhausted
    \/ RLGetWaitTime
    \/ RLGetKeyStatuses
    \/ RLClearKeyData
    \/ RLResetRateLimiter

SpecRL == InitRL /\ [][NextRL]_vars

----------------------------------------------------------------------------
(* Properties of the limiter, checked under SpecRL *)

RLKeys == rateLimiterInstance.keys
RLBuckets == rateLimiterInstance.buckets
RLDaily == rateLimiterInstance.dailyUsage
KnownIds == {id \in KeyIds : \E i \in 1..Len(RLKeys) : RLKeys[i].id = id}

\* The operation op was made in this step.
Did(op) == opSeq' = opSeq + 1 /\ lastOp'.op = op

\* C7: for every credential, after any sequence of limiter operations the
\* bucket satisfies 0 <= tokens <= maxTokens, and every status reported by
\* getKeyStatuses has 0 <= availableTokens <= maxTokens.
C7_TokenBucketBounds ==
    /\ \A id \in DOMAIN RLBuckets :
          /\ 0 <= RLBuckets[id].tokens
          /\ RLBuckets[id].tokens <= RLBuckets[id].maxTokens
    /\ lastOp.op = "getKeyStatuses" =>
          \A i \in 1..Len(lastOp.statuses) :
              /\ 0 <= lastOp.statuses[i].availableTokens
              /\ lastOp.statuses[i].availableTokens <= lastOp.statuses[i].maxTokens

\* The value a bucket of credential id refills to at the present time, written
\* out from the data model: tokens + elapsed * maxTokens-per-minute, capped.
RefilledTokens(id) ==
    LET b == RLBuckets[id]
        rpm == TIER_LIMITS[FindKey(RLKeys, id).tier].rpm
        grown == b.tokens + (now - b.lastRefill) * rpm
    IN IF grown > b.maxTokens THEN b.maxTokens ELSE grown

\* C8: between two consecutive observations of a credential's bucket the
\* token count does not decrease, except that a successful consume leaves
\* exactly one token less than the refilled value and markExhausted leaves 0;
\* the count never exceeds the bucket's maxTokens.
C8_TokenBucketMonotonic ==
    [][ \A id \in (DOMAIN RLBuckets) \cap (DOMAIN rateLimiterInstance'.buckets) :
          LET before == RLBuckets[id].tokens
              after == rateLimiterInstance'.buckets[id].tokens
          IN /\ after <= rateLimiterInstance'.buckets[id].maxTokens
             /\ IF Did("consumeRequest") /\ lastOp'.keyId = id /\ lastOp'.ok
                THEN after = RefilledTokens(id) - TokenUnit
                ELSE IF Did("markExhausted") /\ lastOp'.keyId = id
                     THEN after = 0
                     ELSE after >= before ]_rlVars

\* C8 witness: a consume has succeeded on a bucket that had refilled.
C8_Witness ==
    /\ lastOp.op = "consumeRequest"
    /\ lastOp.ok
    /\ ticks > 0
    /\ lastOp.keyId \in DOMAIN RLBuckets
    /\ RLBuckets[lastOp.keyId].tokens = RLBuckets[lastOp.keyId].maxTokens - TokenUnit

\* C9: if now >= resetAt for a credential, the next status read reports a
\* daily count of 0 for it, the next successful consume leaves a count of 1,
\* and either leaves a resetAt strictly greater than now.
C9_DailyReset ==
    [][ \A i \in 1..Len(RLKeys) :
          LET id == RLKeys[i].id
          IN (id \in DOMAIN RLDaily /\ now >= RLDaily[id].resetAt) =>
                /\ Did("getKeyStatuses") =>
                      /\ lastOp'.statuses[i].dailyUsed = 0
                      /\ rateLimiterInstance'.dailyUsage[id].resetAt > now
                /\ (Did("consumeRequest") /\ lastOp'.keyId = id /\ lastOp'.ok) =>
                      /\ rateLimiterInstance'.dailyUsage[id].count = 1
                      /\ rateLimiterInstance'.dailyUsage[id].resetAt > now ]_rlVars

\* The credentials that can serve a request in the present state: a bucket
\* of at least one token and daily quota left.
Qualifies(i) ==
    LET key == RLKeys[i]
        rpd == TIER_LIMITS[key.tier].rpd
    IN /\ key.id \in DOMAIN RLBuckets
       /\ RLBuckets[key.id].tokens >= TokenUnit
       /\ \/ rpd = RpdUnlimited
          \/ key.id \in DOMAIN RLDaily /\ RLDaily[key.id].count < rpd

Qualified == {i \in 1..Len(RLKeys) : Qualifies(i)}

\* C10: getBestKey returns, among the credentials with daily quota left and
\* at least one token, the one with the greatest token count, the first in
\* list order on ties; it returns none exactly when no credential qualifies.
C10_BestKeySelection ==
    lastOp.op = "getBestKey" =>
        /\ (lastOp.key = NullKey) <=> (Qualified = {})
        /\ Qualified # {} =>
              \E i \in Qualified :
                  /\ RLKeys[i] = lastOp.key
                  /\ \A j \in Qualified :
                        /\ RLBuckets[RLKeys[j].id].tokens <= RLBuckets[RLKeys[i].id].tokens
                        /\ RLBuckets[RLKeys[j].id].tokens = RLBuckets[RLKeys[i].id].tokens
                              => i <= j

\* C10 witness: getBestKey chose between two qualifying credentials holding
\* the same number of tokens.
C10_Witness ==
    /\ lastOp.op = "getBestKey"
    /\ lastOp.key # NullKey
    /\ Cardinality(Qualified) = 2
    /\ \A i, j \in Qualified :
          RLBuckets[RLKeys[i].id].tokens = RLBuckets[RLKeys[j].id].tokens

----------------------------------------------------------------------------
(* constants/index.ts *)

RETRY_CONFIG ==
    [maxRetries |-> 3, baseDelayMs |-> 1000, maxDelayMs |-> 30000,
     retryableStatusCodes |-> {"429", "500", "502", "503", "504"}]

RATE_LIMIT_CONFIG == [maxWaitTimeMs |-> 30000, maxRetriesPerImage |-> 3]

MAX_DOCS_PER_BATCH == 3
TOKENS_PER_IMAGE_PAGE == 560
PROMPT_OVERHEAD_TOKENS == 2000
ESTIMATED_RESPONSE_TOKENS_PER_DOC == 1000
TOKEN_BUDGET_PER_REQUEST == 25000
BATCH_QUALITY_THRESHOLD == 30
AcquireSleepCapMs == 5000     \* acquireKey: sleep(Math.min(waitTime, 5000))

----------------------------------------------------------------------------
(* Error messages.  The classifiers look for substrings of the lower-cased *)
(* message; a message is modelled with the set of those substrings it      *)
(* includes.                                                               *)

ErrRateLimit == "[429 Too Many Requests] quota exceeded"
ErrResourceExhausted == "Resource exhausted"
ErrServer == "[503 Service Unavailable]"
ErrOther == "Invalid response"
ErrAborted == "Aborted"
ErrBatchMismatch == "Batch response mismatch"
ErrBatchMissingIndex == "Batch response missing source_index"
MsgAllKeysExhausted == "All API keys exhausted. Please try again later or add more keys."
MsgRateLimitExceeded == "Rate limit exceeded. Please try again later."

\* The errors the ExtractionClient call itself may raise.
ClientErrors == {ErrRateLimit, ErrResourceExhausted, ErrServer, ErrOther}

Substrings(message) ==
    CASE message = ErrRateLimit -> {"429", "quota"}
      [] message = ErrResourceExhausted -> {"resource exhausted"}
      [] message = ErrServer -> {"503"}
      [] message = MsgRateLimitExceeded -> {"rate limit"}
      [] OTHER -> {}

Includes(message, part) == part \in Substrings(message)

\* A classifier that takes no error for a rate-limit error.
isRateLimitErrorNever(message) == FALSE

\* gemini.ts
isRateLimitError(message) ==
    \/ Includes(message, "rate limit")
    \/ Includes(message, "quota")
    \/ Includes(message, "429")
    \/ Includes(message, "resource exhausted")

\* retry.ts
isRetryableError(message) ==
    \/ Includes(message, "429") \/ Includes(message, "rate limit")
    \/ Includes(message, "quota")
    \/ \E code \in RETRY_CONFIG.retryableStatusCodes : Includes(message, code)
    \/ Includes(message, "network") \/ Includes(message, "fetch")
    \/ Includes(message, "timeout")

RECURSIVE Pow2(_)
Pow2(n) == IF n = 0 THEN 1 ELSE 2 * Pow2(n - 1)

\* A test that takes the attempt after the last allowed one for the last.
RethrowsLate(e, attempt, maxRetries) ==
    ~isRetryableError(e) \/ attempt = maxRetries + 1

\* withRetry, line 66: the error e of attempt number attempt is thrown on
Rethrows(e, attempt, maxRetries) ==
    ~isRetryableError(e) \/ attempt = maxRetries

\* A backoff without its ceiling.
BackoffDelayUncapped(attempt, baseDelayMs, maxDelayMs) == baseDelayMs * Pow2(attempt)

\* withRetry, lines 71-74: the delay slept after failed attempt number attempt
BackoffDelay(attempt, baseDelayMs, maxDelayMs) ==
    Min(baseDelayMs * Pow2(attempt), maxDelayMs)

\* The delay under the options processImage and processBatch leave at their
\* defaults
RetryDelay(attempt) ==
    BackoffDelay(attempt, RETRY_CONFIG.baseDelayMs, RETRY_CONFIG.maxDelayMs)

----------------------------------------------------------------------------
(* gemini.ts: pure parts *)

\* A push that puts the image in front of the batch.
PushImageFirst(batch, image) == <<image.id>> \o batch

\* createDynamicBatches, line 354: currentBatch.push(image)
PushImage(batch, image) == Append(batch, image.id)

\* A test that closes a batch on the document cap alone.
StartsNewBatchDocsOnly(currentBatch, currentTokens, cost) ==
    Len(currentBatch) > 0 /\ Len(currentBatch) >= MAX_DOCS_PER_BATCH

\* createDynamicBatches, lines 346-349: the batch is closed before the image
StartsNewBatch(currentBatch, currentTokens, cost) ==
    LET wouldExceedDocs == Len(currentBatch) >= MAX_DOCS_PER_BATCH
        wouldExceedTokens == currentTokens + cost > TOKEN_BUDGET_PER_REQUEST
    IN Len(currentBatch) > 0 /\ (wouldExceedDocs \/ wouldExceedTokens)

\* createDynamicBatches; a batch is the sequence of the ids of its images
RECURSIVE createDynamicBatchesLoop(_, _, _, _, _)
createDynamicBatchesLoop(imgs, i, done, currentBatch, currentTokens) ==
    IF i > Len(imgs)
    THEN IF Len(currentBatch) > 0 THEN Append(done, currentBatch) ELSE done
    ELSE LET image == imgs[i]
             cost == image.pageCount * TOKENS_PER_IMAGE_PAGE
                     + ESTIMATED_RESPONSE_TOKENS_PER_DOC
         IN IF StartsNewBatch(currentBatch, currentTokens, cost)
            THEN createDynamicBatchesLoop(imgs, i + 1, Append(done, currentBatch),
                                          PushImage(<<>>, image),
                                          PROMPT_OVERHEAD_TOKENS + cost)
            ELSE createDynamicBatchesLoop(imgs, i + 1, done,
                                          PushImage(currentBatch, image),
                                          currentTokens + cost)

createDynamicBatches(imgs) ==
    createDynamicBatchesLoop(imgs, 1, <<>>, <<>>, PROMPT_OVERHEAD_TOKENS)

\* A clamp without the lower end.
ClampConfidenceUpper(confidence) == Min(100, confidence)

\* Math.round(Math.max(0, Math.min(100, confidence))) on an integer
ClampConfidence(confidence) == Max(0, Min(100, confidence))

ErrInvalidIndex == "Invalid source_index"

MissingIndex(docs, n) ==
    \E expected \in 0..(n - 1) :
       \A d \in 1..Len(docs) : docs[d].source_index # expected

\* The validation without its check of the document count.
BatchValidationErrorNoCount(docs, n) ==
    IF MissingIndex(docs, n) THEN ErrBatchMissingIndex
    ELSE IF \E d \in 1..Len(docs) : docs[d].source_index \notin 0..(n - 1)
    THEN ErrInvalidIndex
    ELSE "none"

\* processBatch, lines 465-488: the error the validation throws, or "none".
\* docs is the response's documents; source_index counts from 0.
BatchValidationError(docs, n) ==
    IF Len(docs) # n THEN ErrBatchMismatch
    ELSE IF MissingIndex(docs, n) THEN ErrBatchMissingIndex
    ELSE IF \E d \in 1..Len(docs) : docs[d].source_index \notin 0..(n - 1)
    THEN ErrInvalidIndex
    ELSE "none"

Pending == [state |-> "pending", error |-> "", confidence |-> 0]
Processing == [state |-> "processing", error |-> "", confidence |-> 0]
DoneStatus(confidence) == [state |-> "done", error |-> "", confidence |-> confidence]
ErrorStatus(message) == [state |-> "error", error |-> message, confidence |-> 0]

\* A snapshot that counts the items still without a result.
createProgressRemaining(rl, ls, t, st, res, total, batchNo, isWaiting, waitTimeMs) ==
    LET k == getKeyStatuses(rl, ls, t)
    IN [rl |-> k.rl,
        snap |-> [emitted |-> TRUE,
                  total |-> total,
                  completed |-> total - Len(res),
                  failed |-> Cardinality({id \in DOMAIN st : st[id].state = "error"}),
                  currentBatch |-> batchNo,
                  statuses |-> st,
                  keyStatuses |-> k.ret,
                  isWaitingForKey |-> isWaiting,
                  waitTimeMs |-> waitTimeMs]]

\* createProgress at time t on the collections as they stand; the call of
\* getKeyStatuses refills the limiter's buckets.
createProgress(rl, ls, t, st, res, total, batchNo, isWaiting, waitTimeMs) ==
    LET k == getKeyStatuses(rl, ls, t)
    IN [rl |-> k.rl,
        snap |-> [emitted |-> TRUE,
                  total |-> total,
                  completed |-> Len(res),
                  failed |-> Cardinality({id \in DOMAIN st : st[id].state = "error"}),
                  currentBatch |-> batchNo,
                  statuses |-> st,
                  keyStatuses |-> k.ret,
                  isWaitingForKey |-> isWaiting,
                  waitTimeMs |-> waitTimeMs]]

----------------------------------------------------------------------------
(* processFiles: the mutable context and its updates *)

MaxImages == 2        \* work items handed to processFiles
MaxFailures == 2      \* client calls that fail in a run of several items

PageCounts == {1, 40}         \* 40 pages: two such items exceed the budget
ConfValues == {20, 95}        \* below and above BATCH_QUALITY_THRESHOLD
CallDurations == {1000}       \* time a client call takes, ms

ImageIds(imgs) == {imgs[i].id : i \in 1..Len(imgs)}

\* Work-item lists: the item at position i has id i.
ImageLists ==
    UNION {{imgs \in [1..n -> [id : 1..n, pageCount : PageCounts]] :
               \A i \in 1..n : imgs[i].id = i} : n \in 0..MaxImages}

\* Credential lists handed to processFiles.
OrchKeyLists ==
    {<<>>,
     <<[id |-> "k1", tier |-> "free"]>>,
     <<[id |-> "k1", tier |-> "free"], [id |-> "k2", tier |-> "free"]>>}

\* What earlier runs left in storage: nothing; k1 drained just now; k1 at its
\* daily limit.
OrchStorageStates ==
    {[bucket |-> EmptyMap, daily |-> EmptyMap],
     [bucket |-> BucketRecord(TRUE, 0, T0), daily |-> DailyRecord(5, DayMs)],
     [bucket |-> BucketRecord(TRUE, 15 * TokenUnit, T0),
      daily |-> DailyRecord(250, DayMs)]}

Ctx ==
    [rl |-> rateLimiterInstance, ls |-> localStorage, st |-> statuses,
     proc |-> processedIds, res |-> results, prog |-> progress, g |-> ghost]

\* A snapshot whose status map is ctx.statuses itself.
HeldAliased(snap, st) == IF snap.emitted THEN [snap EXCEPT !.statuses = st] ELSE snap

\* The snapshot snap as its holder reads it once ctx.statuses has become st:
\* createProgress, line 548, gave it a Map of its own, and every change of
\* ctx.statuses is a set of a new status object (lines 598-646, 744-794).
Held(snap, st) == snap

\* The step's effect: context c, control point, locals, batch index, clock
\* and outcome.
Commit(c, newPc, newLoc, newBatchIndex, t, newOutcome) ==
    /\ rateLimiterInstance' = c.rl
    /\ localStorage' = c.ls
    /\ statuses' = c.st
    /\ processedIds' = c.proc
    /\ results' = c.res
    /\ progress' = Held(c.prog, c.st)
    /\ ghost' = [c.g EXCEPT !.first.snap = Held(@, c.st)]
    /\ pc' = newPc
    /\ loc' = newLoc
    /\ batchIndex' = newBatchIndex
    /\ now' = t
    /\ outcome' = newOutcome
    /\ UNCHANGED <<apiKeys, images, batches, aborted, probeVars, unitVars>>

\* statuses.set(id, terminal status); processedIds.add(id)
SetTerminal(c, id, status) ==
    [c EXCEPT !.st[id] = status, !.proc = @ \cup {id}, !.g.recorded[id] = @ + 1]

SetProcessing(c, id) == [c EXCEPT !.st[id] = Processing]

PushResult(c, id, confidence) ==
    [c EXCEPT !.res = Append(@, [id |-> id, confidence |-> confidence])]

\* ctx.onProgress(createProgress(ctx, batch, isWaiting, waitTimeMs))
onProgress(c, t, isWaiting, waitTimeMs) ==
    LET p == createProgress(c.rl, c.ls, t, c.st, c.res, Len(images), batchIndex,
                            isWaiting, waitTimeMs)
        shown == [statuses |-> c.st, keyStatuses |-> p.snap.keyStatuses]
    IN [c EXCEPT !.rl = p.rl, !.prog = p.snap, !.g.shown = shown,
                 !.g.first = IF @.snap.emitted THEN @
                             ELSE [snap |-> p.snap, statuses |-> c.st,
                                   keyStatuses |-> p.snap.keyStatuses]]

Limiter(c, r) == [c EXCEPT !.rl = r.rl, !.ls = r.ls]

Observed(c) == [c EXCEPT !.g.abortObserved = TRUE]

Trouble(c, id) == [c EXCEPT !.g.itemTrouble = @ \cup {id}]

\* processedIds.has(id), the guard before every dispatch and every marking
AlreadyProcessedNever(c, id) == FALSE

AlreadyProcessed(c, id) == id \in c.proc

BatchDocs == batches[batchIndex]

\* An error that leaves processFiles ends the run with it.
EscapeOutcome(e) == IF e = ErrAborted THEN "AbortError" ELSE "Error"

----------------------------------------------------------------------------
(* processFiles as a state machine.  pc is the point the run has reached;  *)
(* the run is suspended (and the user can cancel) at akSleep, inFlight and *)
(* retrySleep.                                                             *)

\* processImageWithRateLimit returns to the loop that called it.
RetPir(l) ==
    LET back == [l EXCEPT !.image = 0, !.caller = "none", !.retryCount = 0,
                          !.akRetry = 0, !.akFor = "none", !.sleepMs = 0,
                          !.bestKey = NullKey, !.attempt = 0, !.callFor = "none",
                          !.error = "none"]
    IN CASE l.caller = "single" ->
              [pc |-> "batchTop", loc |-> NoLoc, batchIndex |-> batchIndex + 1]
         [] l.caller = "reask" ->
              [pc |-> "reask", loc |-> [back EXCEPT !.lowPos = @ + 1],
               batchIndex |-> batchIndex]
         [] l.caller = "fallback" ->
              [pc |-> "fallback", loc |-> [back EXCEPT !.fbPos = @ + 1],
               batchIndex |-> batchIndex]

\* A return that leaves an item out of retries as it is.
PirFinishUnmarked(c, l, t) ==
    LET r == RetPir(l)
    IN Commit(onProgress(c, t, FALSE, 0), r.pc, r.loc, r.batchIndex, t, outcome)

\* processImageWithRateLimit, lines 645-653, and the return
PirFinish(c, l, t) ==
    LET c1 == IF c.st[l.image].state = "processing"
              THEN SetTerminal(c, l.image, ErrorStatus(MsgRateLimitExceeded))
              ELSE c
        r == RetPir(l)
    IN Commit(onProgress(c1, t, FALSE, 0), r.pc, r.loc, r.batchIndex, t, outcome)

\* A catch that marks the serving credential whatever the error is.
BatchCatchMarksAlways(c, l, e, t) ==
    LET c1 == Limiter(c, markExhausted(c.rl, c.ls, l.batchKey.id, t))
    IN Commit(c1, "fallback", [NoLoc EXCEPT !.fbPos = 1, !.error = e],
              batchIndex, t, outcome)

\* processFiles, lines 807-815: the catch around the batch path; loc.error is
\* the catch's variable error, gone when the fallback loop takes its first step
BatchCatch(c, l, e, t) ==
    LET c1 == IF isRateLimitError(e)
              THEN Limiter(c, markExhausted(c.rl, c.ls, l.batchKey.id, t))
              ELSE c
    IN Commit(c1, "fallback", [NoLoc EXCEPT !.fbPos = 1, !.error = e],
              batchIndex, t, outcome)

\* An error thrown out of processImageWithRateLimit
ThrowFromPir(c, l, e, t) ==
    IF l.caller = "reask"
    THEN BatchCatch(c, l, e, t)
    ELSE Commit(c, "done", NoLoc, batchIndex, t, EscapeOutcome(e))

\* A catch that tries again after a rate-limit error without counting it.
PirCatchNoCount(c, l, e, t) ==
    IF isRateLimitError(e)
    THEN Commit(Limiter(c, markExhausted(c.rl, c.ls, l.bestKey.id, t)), "pirLoop",
                [l EXCEPT !.attempt = 0, !.sleepMs = 0,
                          !.callFor = "none", !.error = e],
                batchIndex, t, outcome)
    ELSE PirFinish(SetTerminal(c, l.image, ErrorStatus(e)), l, t)

\* processImageWithRateLimit, lines 631-642: the catch around the single call;
\* loc.error is the catch's variable error, gone when the loop goes on
PirCatch(c, l, e, t) ==
    IF isRateLimitError(e)
    THEN Commit(Limiter(c, markExhausted(c.rl, c.ls, l.bestKey.id, t)), "pirLoop",
                [l EXCEPT !.retryCount = @ + 1, !.attempt = 0, !.sleepMs = 0,
                          !.callFor = "none", !.error = e],
                batchIndex, t, outcome)
    ELSE PirFinish(SetTerminal(c, l.image, ErrorStatus(e)), l, t)

\* An error thrown out of processImage / processBatch passes the catch of the
\* single path; this one lets it leave processFiles.
ThrowPastCatch(c, l, e, t) ==
    IF l.callFor = "single"
    THEN Commit(Trouble(c, l.image), "done", NoLoc, batchIndex, t, EscapeOutcome(e))
    ELSE BatchCatch([c EXCEPT !.g.batchFailed = @ \cup {batchIndex}], l, e, t)

\* An error thrown out of processImage / processBatch reaches the caller's catch.
Throw(c, l, e, t) ==
    IF l.callFor = "single"
    THEN PirCatch(Trouble(c, l.image), l, e, t)
    ELSE BatchCatch([c EXCEPT !.g.batchFailed = @ \cup {batchIndex}], l, e, t)

\* An attempt that starts without a look at the signal.
StartAttemptUnchecked(c, l, t) == Commit(c, "inFlight", l, batchIndex, t, outcome)

\* withRetry, lines 55-60, and the wrapped operation up to generateContent
StartAttempt(c, l, t) ==
    IF aborted
    THEN Throw(Observed(c), l, ErrAborted, t)
    ELSE Commit(c, "inFlight", l, batchIndex, t, outcome)

\* A choice that leaves out all but the batch's first item.
UnprocessedDocsFirst(c) == {id \in {BatchDocs[1]} : ~AlreadyProcessed(c, id)}

\* processFiles, lines 765-766: the items of the batch not yet processed
UnprocessedDocs(c) == {id \in SeqToSet(BatchDocs) : ~AlreadyProcessed(c, id)}

\* A marking that marks nothing.
MarkProcessingNone(c, ids) == c

\* processFiles, lines 741-746: the items ids are set to processing
MarkProcessing(c, ids) ==
    [c EXCEPT !.st = [id \in DOMAIN @ |-> IF id \in ids THEN Processing ELSE @[id]]]

\* processFiles, lines 765-772: the items ids are set to error, no key being
\* available
FailBatch(c, ids) ==
    [c EXCEPT !.st = [id \in DOMAIN c.st |->
                        IF id \in ids
                        THEN ErrorStatus(MsgAllKeysExhausted) ELSE c.st[id]],
              !.proc = @ \cup ids,
              !.g.recorded = [id \in DOMAIN @ |->
                                IF id \in ids THEN @[id] + 1 ELSE @[id]],
              !.g.itemTrouble = @ \cup ids]

\* acquireKey has returned key (NullKey for null) to its caller.
AcquireReturn(c, l, key, t) ==
    IF l.akFor = "pir"
    THEN IF key = NullKey
         THEN LET r == RetPir(l)
              IN Commit(Trouble(SetTerminal(c, l.image, ErrorStatus(MsgAllKeysExhausted)),
                                l.image),
                        r.pc, r.loc, r.batchIndex, t, outcome)
         ELSE StartAttempt(Limiter([c EXCEPT !.g.singleCalls[l.image] = @ + 1],
                                   consumeRequest(c.rl, c.ls, key.id, t)),
                           [l EXCEPT !.bestKey = key, !.attempt = 0, !.callFor = "single",
                                     !.akFor = "none", !.akRetry = 0, !.sleepMs = 0],
                           t)
    ELSE IF key = NullKey
         THEN Commit(onProgress(FailBatch(c, UnprocessedDocs(c)), t, FALSE, 0),
                     "batchTop", NoLoc, batchIndex + 1, t, outcome)
         ELSE StartAttempt(Limiter([c EXCEPT !.g.batchCalls[batchIndex] = @ + 1],
                                   consumeRequest(c.rl, c.ls, key.id, t)),
                           [l EXCEPT !.batchKey = key, !.attempt = 0, !.callFor = "batch",
                                     !.akFor = "none", !.akRetry = 0, !.sleepMs = 0],
                           t)

\* The documents a batch of n items may come back with: n - 1, n or n + 1
\* documents, each with a source_index in 0..n-1 and a confidence.
BatchResponses(n) ==
    UNION {[1..len -> [source_index : 0..(n - 1), confidence : ConfValues]] :
              len \in (n - 1)..(n + 1)}

\* The kind of a response for n items, by the definition of a permutation.
ResponseKind(docs, n) ==
    IF Len(docs) # n THEN "count"
    ELSE IF {docs[d].source_index : d \in 1..Len(docs)} # 0..(n - 1) THEN "index"
    ELSE "permutation"

\* A test that finds no document low.
IsLowConfidenceNever(confidence) == FALSE

\* processFiles, line 790: the document is left to the single-item path
IsLowConfidence(confidence) == confidence < BATCH_QUALITY_THRESHOLD

\* processFiles, lines 785-797: the documents of an accepted response in order
RECURSIVE AcceptLoop(_, _, _, _)
AcceptLoop(c, docs, d, low) ==
    IF d > Len(docs) THEN [c |-> c, low |-> low]
    ELSE LET item == docs[d]
             confidence == ClampConfidence(item.confidence)
             id == BatchDocs[item.source_index + 1]
         IN IF IsLowConfidence(confidence)
            THEN AcceptLoop(c, docs, d + 1, Append(low, item.source_index))
            ELSE AcceptLoop(SetTerminal(PushResult(c, id, confidence), id,
                                        DoneStatus(confidence)),
                            docs, d + 1, low)

\* The fallback loop of lines 816-819 has passed the last item of the batch.
FallbackDoneAfterFirst(l) == l.fbPos > 1

FallbackDone(l) == l.fbPos > Len(BatchDocs)

Init ==
    /\ OrchIdle
    /\ UnitIdle
    /\ now = T0
    /\ localStorage \in OrchStorageStates
    /\ rateLimiterInstance = NoInstance
    /\ lastOp = NoOp
    /\ opSeq = 0
    /\ ticks = 0

\* processFiles is called: lines 698-725
Start ==
    /\ pc = "idle"
    /\ \E keys \in OrchKeyLists, imgs \in ImageLists :
          /\ apiKeys' = keys
          /\ images' = imgs
          /\ IF Len(keys) = 0
             THEN /\ pc' = "done"
                  /\ outcome' = "Error"
                  /\ UNCHANGED <<limiterVars, batches, batchIndex, statuses,
                                 processedIds, results, loc, progress, ghost>>
             ELSE /\ rateLimiterInstance' =
                        getRateLimiter(rateLimiterInstance, localStorage, keys, now)
                  /\ statuses' = [id \in ImageIds(imgs) |-> Pending]
                  /\ ghost' = [NoGhost EXCEPT
                                  !.recorded = [id \in ImageIds(imgs) |-> 0],
                                  !.singleCalls = [id \in ImageIds(imgs) |-> 0],
                                  !.batchCalls =
                                      [b \in 1..Len(createDynamicBatches(imgs)) |-> 0]]
                  /\ batches' = createDynamicBatches(imgs)
                  /\ batchIndex' = 1
                  /\ pc' = "batchTop"
                  /\ UNCHANGED <<now, localStorage, processedIds, results, loc,
                                 progress, outcome>>
    /\ UNCHANGED <<aborted, probeVars, unitVars>>

\* The top of the batch loop: lines 727-756
BatchTop ==
    /\ pc = "batchTop"
    /\ IF batchIndex > Len(batches)
       THEN Commit(Ctx, "done", NoLoc, batchIndex, now, "returned")
       ELSE IF aborted
       THEN Commit(Observed(Ctx), "done", NoLoc, batchIndex, now, "AbortError")
       ELSE LET c1 == MarkProcessing(Ctx, UnprocessedDocs(Ctx))
                c2 == onProgress(c1, now, FALSE, 0)
            IN IF Len(BatchDocs) = 1
               THEN Commit(c2, "pirEnter",
                           [NoLoc EXCEPT !.image = BatchDocs[1], !.caller = "single"],
                           batchIndex, now, outcome)
               ELSE Commit(c2, "akLoop", [NoLoc EXCEPT !.akFor = "batch"],
                           batchIndex, now, outcome)

\* processImageWithRateLimit is entered: lines 596-602
PirEnter ==
    /\ pc = "pirEnter"
    /\ IF AlreadyProcessed(Ctx, loc.image)
       THEN LET r == RetPir(loc)
            IN Commit(Ctx, r.pc, r.loc, r.batchIndex, now, outcome)
       ELSE Commit(onProgress(SetProcessing(Ctx, loc.image), now, FALSE, 0),
                   "pirLoop", [loc EXCEPT !.retryCount = 0], batchIndex, now, outcome)

\* A loop that goes round once more than maxRetriesPerImage allows.
PirLoopOneMore ==
    /\ pc = "pirLoop"
    /\ IF loc.retryCount > RATE_LIMIT_CONFIG.maxRetriesPerImage
       THEN PirFinish(Ctx, loc, now)
       ELSE IF aborted
       THEN ThrowFromPir(Observed(Ctx), loc, ErrAborted, now)
       ELSE Commit(Ctx, "akLoop",
                   [loc EXCEPT !.akFor = "pir", !.akRetry = 0, !.error = "none"],
                   batchIndex, now, outcome)

\* The top of the single-item loop: lines 604-609
PirLoop ==
    /\ pc = "pirLoop"
    /\ IF loc.retryCount >= RATE_LIMIT_CONFIG.maxRetriesPerImage
       THEN PirFinish(Ctx, loc, now)
       ELSE IF aborted
       THEN ThrowFromPir(Observed(Ctx), loc, ErrAborted, now)
       ELSE Commit(Ctx, "akLoop",
                   [loc EXCEPT !.akFor = "pir", !.akRetry = 0, !.error = "none"],
                   batchIndex, now, outcome)

\* acquireKey, line 566: the loop has used up its polls
AcquireGivesUp(retryCount) == retryCount >= RATE_LIMIT_CONFIG.maxRetriesPerImage

\* acquireKey, line 577: the wait is beyond what the caller tolerates
WaitTooLong(waitTime) == waitTime > RATE_LIMIT_CONFIG.maxWaitTimeMs

\* A sleep of the whole wait.
AcquireSleepMsUncapped(waitTime) == waitTime

\* acquireKey, line 582: sleep(Math.min(waitTime, 5000))
AcquireSleepMs(waitTime) == Min(waitTime, AcquireSleepCapMs)

\* One iteration of acquireKey up to its sleep: lines 566-582
AcquireKey ==
    /\ pc = "akLoop"
    /\ IF AcquireGivesUp(loc.akRetry)
       THEN AcquireReturn(Ctx, loc, NullKey, now)
       ELSE IF aborted
       THEN IF loc.akFor = "pir"
            THEN ThrowFromPir(Observed(Ctx), loc, ErrAborted, now)
            ELSE Commit(Observed(Ctx), "done", NoLoc, batchIndex, now,
                        EscapeOutcome(ErrAborted))
       ELSE LET b == getBestKey(rateLimiterInstance, localStorage, now)
                w == getWaitTime(b.rl, b.ls, now)
            IN IF b.ret # NullKey
               THEN AcquireReturn(Limiter(Ctx, b), loc, b.ret, now)
               ELSE IF WaitTooLong(w.ret)
               THEN AcquireReturn(Limiter(Ctx, w), loc, NullKey, now)
               ELSE Commit(onProgress(Limiter(Ctx, w), now, TRUE, w.ret), "akSleep",
                           [loc EXCEPT !.sleepMs = AcquireSleepMs(w.ret)],
                           batchIndex, now, outcome)

\* The sleep of acquireKey ends: lines 582-583
AcquireWake ==
    /\ pc = "akSleep"
    /\ Commit(Ctx, "akLoop", [loc EXCEPT !.akRetry = @ + 1, !.sleepMs = 0],
              batchIndex, now + loc.sleepMs, outcome)

\* The client answers the single-item call: processImage, lines 384-415, and
\* processImageWithRateLimit, lines 627-630 and 645-653
SingleResponse ==
    /\ pc = "inFlight"
    /\ loc.callFor = "single"
    /\ \E dt \in CallDurations, confidence \in ConfValues :
          LET score == ClampConfidence(confidence)
          IN PirFinish(SetTerminal(PushResult(Ctx, loc.image, score), loc.image,
                                   DoneStatus(score)),
                       loc, now + dt)

\* The client answers the batch call: processBatch, lines 459-516, and
\* processFiles, lines 785-797
BatchResponse ==
    /\ pc = "inFlight"
    /\ loc.callFor = "batch"
    /\ \E dt \in CallDurations, docs \in BatchResponses(Len(BatchDocs)) :
          LET n == Len(BatchDocs)
              e == BatchValidationError(docs, n)
              c1 == [Ctx EXCEPT !.g.responses = @ + 1,
                                !.g.respKind = ResponseKind(docs, n)]
              a == AcceptLoop(c1, docs, 1, <<>>)
          IN IF e # "none"
             THEN Throw(c1, loc, e, now + dt)
             ELSE Commit(a.c, "reask",
                         [NoLoc EXCEPT !.batchKey = loc.batchKey, !.low = a.low,
                                       !.lowPos = 1],
                         batchIndex, now + dt, outcome)

\* The failing client calls a run may see: MaxFailures in a run of two items,
\* one more in a run of at most one item, enough for the item to use up its
\* rate-limit retries, and one less for each further item.
FailureBudget ==
    IF Len(images) <= 1 THEN MaxFailures + 1 ELSE MaxFailures + 2 - Len(images)

\* The client call fails: withRetry, lines 62-79
CallFails ==
    /\ pc = "inFlight"
    /\ ghost.failures < FailureBudget
    /\ \E dt \in CallDurations, e \in ClientErrors :
          LET c0 == [Ctx EXCEPT !.g.failures = @ + 1]
              c1 == IF loc.callFor = "single" THEN Trouble(c0, loc.image) ELSE c0
          IN IF Rethrows(e, loc.attempt, RETRY_CONFIG.maxRetries)
             THEN Throw(c1, loc, e, now + dt)
             ELSE Commit(c1, "retrySleep",
                         [loc EXCEPT !.sleepMs = RetryDelay(loc.attempt)],
                         batchIndex, now + dt, outcome)

\* The backoff sleep of withRetry ends and the next attempt starts
RetryWake ==
    /\ pc = "retrySleep"
    /\ StartAttempt(Ctx, [loc EXCEPT !.attempt = @ + 1, !.sleepMs = 0],
                    now + loc.sleepMs)

\* The loop over the low-confidence documents: lines 800-806 and 822
Reask ==
    /\ pc = "reask"
    /\ IF loc.lowPos > Len(loc.low)
       THEN Commit(onProgress(Ctx, now, FALSE, 0), "batchTop", NoLoc,
                   batchIndex + 1, now, outcome)
       ELSE LET id == BatchDocs[loc.low[loc.lowPos] + 1]
            IN IF AlreadyProcessed(Ctx, id)
               THEN Commit(Ctx, "reask", [loc EXCEPT !.lowPos = @ + 1],
                           batchIndex, now, outcome)
               ELSE Commit(Ctx, "pirEnter",
                           [loc EXCEPT !.image = id, !.caller = "reask"],
                           batchIndex, now, outcome)

\* The fallback loop over the batch: lines 815-822
Fallback ==
    /\ pc = "fallback"
    /\ IF FallbackDone(loc)
       THEN Commit(onProgress(Ctx, now, FALSE, 0), "batchTop", NoLoc,
                   batchIndex + 1, now, outcome)
       ELSE LET id == BatchDocs[loc.fbPos]
            IN IF AlreadyProcessed(Ctx, id)
               THEN Commit(Ctx, "fallback",
                           [loc EXCEPT !.fbPos = @ + 1, !.error = "none"],
                           batchIndex, now, outcome)
               ELSE Commit(Ctx, "pirEnter",
                           [loc EXCEPT !.image = id, !.caller = "fallback",
                                       !.error = "none"],
                           batchIndex, now, outcome)

\* The user cancels while the run is suspended: AbortController.abort()
Abort ==
    /\ pc \in {"akSleep", "inFlight", "retrySleep"}
    /\ ~aborted
    /\ aborted' = TRUE
    /\ UNCHANGED <<limiterVars, probeVars, unitVars, pc, apiKeys, images, batches, batchIndex,
                   statuses, processedIds, results, outcome, loc, progress, ghost>>

Next ==
    \/ Start
    \/ BatchTop
    \/ PirEnter
    \/ PirLoop
    \/ AcquireKey
    \/ AcquireWake
    \/ SingleResponse
    \/ BatchResponse
    \/ CallFails
    \/ RetryWake
    \/ Reask
    \/ Fallback
    \/ Abort

Spec == Init /\ [][Next]_vars

----------------------------------------------------------------------------
(* Properties of processFiles *)

Terminal(status) == status.state \in {"done", "error"}

ResultsFor(res, id) == {i \in 1..Len(res) : res[i].id = id}

\* C1: across a run of processFiles every item gets at most one terminal
\* status, and exactly one when the run returns: a status that is done or
\* error never changes again, a terminal status has been set once for an item
\* in a terminal state and never otherwise, no call is in flight for an item
\* already processed, and no item has two results.
C1_AtMostOneCompletion ==
    [][/\ \A id \in DOMAIN statuses :
             Terminal(statuses[id]) => statuses'[id] = statuses[id]
       /\ \A id \in DOMAIN statuses' :
             /\ ghost'.recorded[id] = (IF Terminal(statuses'[id]) THEN 1 ELSE 0)
             /\ Terminal(statuses'[id]) <=> id \in processedIds'
             /\ Cardinality(ResultsFor(results', id))
                   = (IF statuses'[id].state = "done" THEN 1 ELSE 0)
       /\ pc' = "inFlight" =>
             IF loc'.callFor = "single"
             THEN loc'.image \notin processedIds'
             ELSE \A id \in SeqToSet(batches'[batchIndex']) : id \notin processedIds'
       /\ outcome' = "returned" =>
             \A id \in DOMAIN statuses' : Terminal(statuses'[id])
      ]_vars

\* A run over a two-item batch has returned after an accepted batch response
\* and a re-ask whose call failed at first: both items have their result.
C1_Witness ==
    /\ outcome = "returned"
    /\ ghost.respKind = "permutation"
    /\ ghost.itemTrouble # {}
    /\ Len(results) = 2
    /\ \A id \in DOMAIN statuses : statuses[id].state = "done"

\* C2 as stated: for every credential list, processFiles returns the results
\* or ends cancelled; it throws nothing else.
C2_OnlyCancellationPropagates ==
    pc = "done" => outcome \in {"returned", "AbortError"}

\* C2 for a credential list that is not empty: processFiles returns the
\* accumulated results, every failure captured as an error status with its
\* message, or ends cancelled; it throws nothing else.
C2_OnlyCancellationPropagatesNonEmpty ==
    (pc = "done" /\ Len(apiKeys) > 0) =>
        /\ outcome \in {"returned", "AbortError"}
        /\ outcome = "returned" =>
              \A id \in DOMAIN statuses :
                 \/ statuses[id].state = "done" /\ ResultsFor(results, id) # {}
                 \/ /\ statuses[id].state = "error"
                    /\ statuses[id].error # ""
                    /\ ResultsFor(results, id) = {}

\* A run with credentials has returned although a client call failed for good:
\* the failure is an error status.
C2_Witness ==
    /\ pc = "done"
    /\ Len(apiKeys) > 0
    /\ outcome = "returned"
    /\ ghost.failures > 0
    /\ \E id \in DOMAIN statuses : statuses[id] = ErrorStatus(ErrOther)

\* C3: once a cancellation check has observed the signal, processFiles ends
\* with AbortError and never returns normally.
C3_CancellationEndsAborted ==
    (pc = "done" /\ ghost.abortObserved) => outcome = "AbortError"

\* C4: the step in which a cancellation check observes the signal changes the
\* status of no item.
C4_CancellationLeavesStatuses ==
    [][(ghost'.abortObserved /\ ~ghost.abortObserved) => statuses' = statuses]_vars

\* C5: a batch response is accepted only if it is a permutation of 0..n-1
\* (exactly n documents covering every index); any other response is rejected
\* as a whole: the step that receives it adds no result, changes no status and
\* goes to the per-item fallback.
C5_BatchIndexCoverage ==
    [][ghost'.responses # ghost.responses =>
          IF ghost'.respKind = "permutation"
          THEN pc' = "reask"
          ELSE /\ pc' = "fallback"
               /\ results' = results
               /\ statuses' = statuses
               /\ processedIds' = processedIds
      ]_vars

\* A response with the right count but a missing index has just been rejected.
C5_Witness ==
    /\ pc = "fallback"
    /\ ghost.respKind = "index"
    /\ results = <<>>

\* C6: when the batch call of a batch fails and then no item of the batch
\* meets a failing single-item call or a missing key, the run returns with
\* every item of the batch done and exactly one result for each.
C6_BatchFailureFallsBack ==
    outcome = "returned" =>
        \A b \in ghost.batchFailed :
           LET ids == SeqToSet(batches[b])
           IN ids \cap ghost.itemTrouble = {} =>
                 \A id \in ids :
                    /\ statuses[id].state = "done"
                    /\ Cardinality(ResultsFor(results, id)) = 1

\* The batch call returned a wrong document count, both items went through the
\* single path without trouble, and the run returned two results.
C6_Witness ==
    /\ outcome = "returned"
    /\ ghost.batchFailed = {1}
    /\ ghost.respKind = "count"
    /\ ghost.itemTrouble = {}
    /\ Len(batches[1]) = 2
    /\ Len(results) = 2

----------------------------------------------------------------------------
(* Further properties of the limiter, checked under SpecRL *)

\* C11: consumeRequest(id) on a known credential whose refilled bucket holds
\* at least one token deducts exactly one token, persists the bucket, adds
\* exactly 1 to the credential's daily count, persists it and returns true;
\* in every other case it returns false, deducts nothing and leaves the daily
\* usage and the storage as they were.
C11_Consume ==
    [][Did("consumeRequest") =>
          LET id == lastOp'.keyId
              known == id \in KnownIds /\ id \in DOMAIN RLBuckets
              after == rateLimiterInstance'
          IN IF known /\ RefilledTokens(id) >= TokenUnit
             THEN /\ lastOp'.ok
                  /\ after.buckets[id].tokens = RefilledTokens(id) - TokenUnit
                  /\ localStorage'.bucket[id].tokens = after.buckets[id].tokens
                  /\ localStorage'.bucket[id].lastRefill = after.buckets[id].lastRefill
                  /\ after.dailyUsage[id].count =
                        (IF id \in DOMAIN RLDaily THEN RLDaily[id].count ELSE 0) + 1
                  /\ localStorage'.daily[id] = after.dailyUsage[id]
                  /\ \A other \in DOMAIN RLBuckets \ {id} :
                        after.buckets[other] = RLBuckets[other]
                  /\ \A other \in DOMAIN RLDaily \ {id} :
                        after.dailyUsage[other] = RLDaily[other]
             ELSE /\ ~lastOp'.ok
                  /\ IF known
                     THEN after.buckets[id].tokens = RefilledTokens(id)
                     ELSE after.buckets = RLBuckets
                  /\ after.dailyUsage = RLDaily
                  /\ localStorage' = localStorage
      ]_rlVars

\* A consume has succeeded on a credential that already had daily usage: the
\* count is above 1 and the persisted usage equals the one in memory.
C11_Witness ==
    /\ lastOp.op = "consumeRequest"
    /\ lastOp.ok
    /\ lastOp.keyId \in DOMAIN RLDaily
    /\ RLDaily[lastOp.keyId].count > 1
    /\ localStorage.daily[lastOp.keyId] = RLDaily[lastOp.keyId]

\* The daily quota of the credential at position i is not used up.
DailyPermits(rl, i) ==
    LET key == rl.keys[i]
        rpd == TIER_LIMITS[key.tier].rpd
    IN \/ rpd = RpdUnlimited
       \/ key.id \notin DOMAIN rl.dailyUsage
       \/ rl.dailyUsage[key.id].count < rpd
       \/ now >= rl.dailyUsage[key.id].resetAt

QuotaLeft(i) ==
    LET id == RLKeys[i].id
        rpd == TIER_LIMITS[RLKeys[i].tier].rpd
        recorded == id \in DOMAIN RLDaily \/ id \in DOMAIN localStorage.daily
        usage == IF id \in DOMAIN RLDaily THEN RLDaily[id] ELSE localStorage.daily[id]
    IN /\ id \in DOMAIN RLBuckets
       /\ \/ rpd = RpdUnlimited
          \/ ~recorded
          \/ now >= usage.resetAt
          \/ usage.count < rpd

WithQuota == {i \in 1..Len(RLKeys) : QuotaLeft(i)}

\* Milliseconds until the credential at position i holds one token.
TimeToToken(i) ==
    CeilDiv(TokenUnit - RefilledTokens(RLKeys[i].id), TIER_LIMITS[RLKeys[i].tier].rpm)

\* C13: getWaitTime returns 0 if a credential with daily quota left holds at
\* least one token after refilling; otherwise the least time, rounded up, that
\* a credential with daily quota left needs to reach one token, a positive
\* value; and the fallback of 60000 ms exactly when no credential has daily
\* quota left.
C13_WaitTime ==
    [][Did("getWaitTime") =>
          LET wait == lastOp'.wait
          IN /\ IF \E i \in WithQuota : RefilledTokens(RLKeys[i].id) >= TokenUnit
                THEN wait = 0
                ELSE IF WithQuota = {}
                THEN wait = FallbackWaitMs
                ELSE /\ wait > 0
                     /\ \E i \in WithQuota : wait = TimeToToken(i)
                     /\ \A i \in WithQuota : wait <= TimeToToken(i)
             /\ wait = FallbackWaitMs <=> WithQuota = {}
      ]_rlVars

\* getWaitTime has answered 60000/rpm for a single credential with an empty
\* bucket and daily quota left.
C13_Witness ==
    /\ lastOp.op = "getWaitTime"
    /\ Len(RLKeys) = 1
    /\ WithQuota = {1}
    /\ RLBuckets[RLKeys[1].id].tokens = 0
    /\ lastOp.wait = CeilDiv(TokenUnit, TIER_LIMITS[RLKeys[1].tier].rpm)
    /\ lastOp.wait > 0

\* The ids of the credentials of the limiter rl.
IdsOf(rl) == {rl.keys[i].id : i \in 1..Len(rl.keys)}

\* C22: a getRateLimiter call on the existing limiter leaves the bucket and
\* the daily usage of every credential it holds state for and that is still
\* in the list as they were, removes those of the credentials no longer in
\* the list, and loads from storage those of the credentials it held no
\* state for.
C22_ReconcileKeepsCommon ==
    [][(Did("getRateLimiter") /\ rateLimiterInstance.live) =>
          \A id \in KeyIds :
             LET new == rateLimiterInstance'
                 listed == id \in IdsOf(new)
             IN /\ (listed /\ id \in DOMAIN RLBuckets) =>
                      /\ id \in DOMAIN new.buckets
                      /\ new.buckets[id] = RLBuckets[id]
                /\ (listed /\ id \in DOMAIN RLDaily) =>
                      /\ id \in DOMAIN new.dailyUsage
                      /\ new.dailyUsage[id] = RLDaily[id]
                /\ ~listed =>
                      /\ id \notin DOMAIN new.buckets
                      /\ id \notin DOMAIN new.dailyUsage
                /\ (listed /\ id \notin DOMAIN RLBuckets) =>
                      /\ id \in DOMAIN new.buckets
                      /\ new.buckets[id] =
                            refillBucket(loadBucketState(localStorage, id,
                                                         FindKey(new.keys, id).tier, now),
                                         FindKey(new.keys, id).tier, now)
                /\ (listed /\ id \notin DOMAIN RLDaily) =>
                      /\ id \in DOMAIN new.dailyUsage
                      /\ new.dailyUsage[id] = loadDailyUsage(localStorage, id, now)
      ]_rlVars

\* After a getRateLimiter call the limiter holds k1's bucket, below capacity
\* and last refilled before the call, beside a bucket for k2 created by it.
C22_Witness ==
    /\ lastOp.op = "getRateLimiter"
    /\ {"k1", "k2"} \subseteq DOMAIN RLBuckets
    /\ RLBuckets["k1"].lastRefill < now
    /\ RLBuckets["k1"].tokens < RLBuckets["k1"].maxTokens
    /\ RLBuckets["k2"].lastRefill = now

\* The stored bucket record of id is missing, not numeric, or out of range:
\* a negative count or a refill time ahead of the clock.
BadBucketRecord(id) ==
    \/ id \notin DOMAIN localStorage.bucket
    \/ ~localStorage.bucket[id].numeric
    \/ localStorage.bucket[id].tokens < 0
    \/ localStorage.bucket[id].lastRefill > now

\* The stored daily record of id is missing or has no numeric resetAt.
BadDailyRecord(id) ==
    \/ id \notin DOMAIN localStorage.daily
    \/ localStorage.daily[id].resetAt = NoResetAt

\* C23: a limiter built from storage holds, for a credential whose bucket
\* record is missing, malformed or out of range, the full bucket of its tier,
\* and for one whose daily record is missing or malformed the count 0 with
\* resetAt at the next midnight.
C23_BadRecordsGiveDefaults ==
    (opSeq = 0 /\ ticks = 0) =>
       \A i \in 1..Len(RLKeys) :
          LET id == RLKeys[i].id
              cap == Capacity(RLKeys[i].tier)
          IN /\ BadBucketRecord(id) =>
                   RLBuckets[id] = [tokens |-> cap, maxTokens |-> cap, lastRefill |-> now]
             /\ BadDailyRecord(id) =>
                   RLDaily[id] = [count |-> 0, resetAt |-> getNextMidnightPT(now)]

\* getBestKey would find daily quota for the credential at position i of the
\* limiter at the present time, by checkDailyLimit: the tier is unlimited, or
\* the recorded day is over, or the recorded count is below the limit.
BestKeyFindsQuota(i) ==
    LET id == RLKeys[i].id
        rpd == TIER_LIMITS[RLKeys[i].tier].rpd
    IN \/ rpd = RpdUnlimited
       \/ id \notin DOMAIN RLDaily
       \/ now >= RLDaily[id].resetAt
       \/ RLDaily[id].count < rpd

\* The recorded count of the credential at position i is below its limit.
CountBelowLimit(i) ==
    LET id == RLKeys[i].id
        rpd == TIER_LIMITS[RLKeys[i].tier].rpd
    IN \/ rpd = RpdUnlimited
       \/ id \notin DOMAIN RLDaily
       \/ RLDaily[id].count < rpd

\* C33: in every status getKeyStatuses returns for a credential that has a
\* bucket, isExhausted holds exactly if getBestKey would find no daily quota
\* for the credential at that instant or the refilled bucket holds less than
\* one token.
C33_ExhaustedFlag ==
    [][Did("getKeyStatuses") =>
          \A i \in 1..Len(RLKeys) :
             RLKeys[i].id \in DOMAIN RLBuckets =>
                (lastOp'.statuses[i].isExhausted
                    <=> \/ ~BestKeyFindsQuota(i)
                        \/ rateLimiterInstance'.buckets[RLKeys[i].id].tokens < TokenUnit)
      ]_rlVars

\* The same with the daily quota judged by the recorded count alone, whether
\* or not its day is over.
C33_ExhaustedByRecordedCount ==
    [][Did("getKeyStatuses") =>
          \A i \in 1..Len(RLKeys) :
             RLKeys[i].id \in DOMAIN RLBuckets =>
                (lastOp'.statuses[i].isExhausted
                    <=> \/ ~CountBelowLimit(i)
                        \/ rateLimiterInstance'.buckets[RLKeys[i].id].tokens < TokenUnit)
      ]_rlVars

TierOf(id) == FindKey(RLKeys, id).tier

\* The limiter holds a bucket for credential id that was loaded under the
\* tier the credential still has.
SameTier(id) ==
    /\ FindKey(RLKeys, id) # NullKey
    /\ id \in DOMAIN RLBuckets
    /\ RLBuckets[id].maxTokens = Capacity(TierOf(id))

\* The tokens of credential id now: as the limiter in memory reports them,
\* and as a limiter constructed now from storage reports them.
TokensInMemory(id) == refillBucket(RLBuckets[id], TierOf(id), now).tokens

TokensRestarted(id) ==
    refillBucket(NewRateLimiter(localStorage, RLKeys, now).buckets[id],
                 TierOf(id), now).tokens

RestartAgrees(id) == SameTier(id) => TokensRestarted(id) = TokensInMemory(id)

\* The step saves nothing: the clock advances, or a call refills buckets in
\* memory only.
Unpersisted ==
    \/ now' # now
    \/ Did("getBestKey")
    \/ Did("getWaitTime")
    \/ Did("getKeyStatuses")
    \/ Did("consumeRequest") /\ ~lastOp'.ok

\* With tokens counted exactly, in TokenUnit-ths: after a consumeRequest or
\* markExhausted that saved the bucket of a credential whose tier is
\* unchanged, a limiter constructed from storage reports the same tokens for
\* it as the limiter in memory, and this stays so while the clock advances and
\* calls refill the buckets in memory without saving them.  The program counts
\* tokens in doubles: SpecRestart below takes the rounding into account.
RestartEquivalenceExact ==
    [][/\ \A id \in KeyIds :
             (/\ Did("consumeRequest") \/ Did("markExhausted")
              /\ lastOp'.ok
              /\ lastOp'.keyId = id) => RestartAgrees(id)'
       /\ Unpersisted =>
             \A id \in KeyIds :
                (SameTier(id) /\ RestartAgrees(id)) => RestartAgrees(id)'
      ]_rlVars

\* A bucket saved by consumeRequest was refilled in memory by getBestKey after
\* the clock had advanced, and is short of its capacity.
RestartEquivalenceExactSeen ==
    /\ lastOp.op = "getBestKey"
    /\ \E id \in KeyIds :
          /\ SameTier(id)
          /\ id \in DOMAIN localStorage.bucket
          /\ localStorage.bucket[id].numeric
          /\ localStorage.bucket[id].lastRefill < RLBuckets[id].lastRefill
          /\ localStorage.bucket[id].lastRefill > T0
          /\ RLBuckets[id].tokens < RLBuckets[id].maxTokens
          /\ RLBuckets[id].tokens > localStorage.bucket[id].tokens

----------------------------------------------------------------------------
(* Further properties of processFiles *)

\* A credential can serve a request within the tolerable wait: it has daily
\* quota left and reaches one token in at most maxWaitTimeMs.
CanServe(i) == QuotaLeft(i) /\ TimeToToken(i) <= RATE_LIMIT_CONFIG.maxWaitTimeMs

NoCredentialCanServe == \A i \in 1..Len(RLKeys) : ~CanServe(i)

RateLimitMessages == {MsgAllKeysExhausted, MsgRateLimitExceeded}

\* The item id is set to an error that stems from rate limiting in this step.
EndsRateLimited(id) ==
    /\ statuses[id].state # "error"
    /\ statuses'[id].state = "error"
    /\ statuses'[id].error \in RateLimitMessages \cup {ErrRateLimit, ErrResourceExhausted}

\* C14 as stated: an item ends in error because of rate limiting only in a
\* state where no credential can serve a request within the tolerable wait.
C14_RateLimitNotSurfaced ==
    [][\A id \in DOMAIN statuses :
          (id \in DOMAIN statuses' /\ EndsRateLimited(id)) => NoCredentialCanServe'
      ]_vars

\* C14 with the retry ceiling: the message of an upstream rate-limit failure
\* never becomes an item's error; an item is set to "Rate limit exceeded" only
\* after maxRetriesPerImage rate-limit failures of its own calls, and to "All
\* API keys exhausted" only when no credential can serve a request within the
\* tolerable wait or acquireKey has used up its polls.
C14_RateLimitSurfacedAtCeiling ==
    [][\A id \in DOMAIN statuses :
          (id \in DOMAIN statuses' /\ EndsRateLimited(id)) =>
             \/ /\ statuses'[id].error = MsgRateLimitExceeded
                /\ loc.image = id
                /\ loc.retryCount = RATE_LIMIT_CONFIG.maxRetriesPerImage
             \/ /\ statuses'[id].error = MsgAllKeysExhausted
                /\ \/ NoCredentialCanServe'
                   \/ loc.akRetry = RATE_LIMIT_CONFIG.maxRetriesPerImage
      ]_vars

\* An item has ended with "Rate limit exceeded" after its third rate-limit
\* failure while a credential could serve within the tolerable wait.
C14_Witness ==
    /\ \E id \in DOMAIN statuses : statuses[id] = ErrorStatus(MsgRateLimitExceeded)
    /\ ghost.failures >= RATE_LIMIT_CONFIG.maxRetriesPerImage
    /\ ~NoCredentialCanServe

\* C16: each snapshot handed to onProgress carries as completed the number of
\* results accumulated at that moment, and never less than the snapshot
\* emitted before it in the run.
C16_CompletedMonotonic ==
    [][(progress' # progress /\ progress'.emitted) =>
          /\ progress'.completed = Len(results')
          /\ progress.emitted => progress'.completed >= progress.completed
      ]_vars

\* The snapshot after the second of two batches shows two completed items;
\* the one after the first batch showed one.
C16_Witness ==
    /\ progress.emitted
    /\ Len(batches) = 2
    /\ progress.currentBatch = 2
    /\ progress.completed = 2

InFailedBatch == pc \in {"fallback", "pirEnter"} /\ batchIndex \in ghost.batchFailed

\* C24: when the call of a multi-item batch fails, the step that catches the
\* error sets the tokens of the credential that served the call to 0 if the
\* error is classified as a rate-limit error and leaves the limiter and its
\* storage as they were for any other error; the fallback loop then starts at
\* the batch's first item, hands every item in turn to
\* processImageWithRateLimit, which dispatches it (none is skipped as already
\* processed), moves on by one item when that returns with the item in a
\* terminal state, and ends only after the last item, each item having got
\* exactly one terminal status.  (A cancellation ends the run instead.)
C24_BatchFailureFallsBack ==
    [][/\ (pc' = "fallback" /\ loc'.error # "none"
            /\ batchIndex \in ghost'.batchFailed)
          => /\ loc.batchKey # NullKey
             /\ pc \in {"inFlight", "retrySleep"} /\ loc.callFor = "batch"
             /\ loc'.fbPos = 1
             /\ IF isRateLimitError(loc'.error)
                THEN rateLimiterInstance'.buckets[loc.batchKey.id].tokens = 0
                ELSE /\ rateLimiterInstance' = rateLimiterInstance
                     /\ localStorage' = localStorage
       /\ (InFailedBatch /\ pc = "fallback" /\ ~FallbackDone(loc))
          => /\ pc' = "pirEnter"
             /\ loc'.image = BatchDocs[loc.fbPos]
             /\ loc'.caller = "fallback"
       /\ (InFailedBatch /\ pc = "pirEnter")
          => /\ pc' = "pirLoop"
             /\ statuses'[loc.image].state = "processing"
       /\ (pc # "fallback" /\ pc' = "fallback" /\ loc.caller = "fallback")
          => /\ loc'.fbPos = loc.fbPos + 1
             /\ Terminal(statuses'[loc.image])
       /\ (InFailedBatch /\ pc = "fallback" /\ FallbackDone(loc))
          => /\ pc' = "batchTop"
             /\ \A i \in 1..Len(BatchDocs) :
                   /\ Terminal(statuses[BatchDocs[i]])
                   /\ ghost.recorded[BatchDocs[i]] = 1]_vars

\* The call of a batch of two has failed with a rate-limit error and the catch
\* has just marked the credential that served it.
C24_Witness ==
    /\ pc = "fallback"
    /\ loc.fbPos = 1
    /\ isRateLimitError(loc.error)
    /\ Len(BatchDocs) = 2
    /\ batchIndex \in ghost.batchFailed
    /\ \E id \in DOMAIN rateLimiterInstance.buckets :
          /\ rateLimiterInstance.buckets[id].tokens = 0
          /\ rateLimiterInstance.buckets[id].lastRefill = now

\* The fallback loop has passed both items of a batch whose call failed with
\* an error that the run did not see again.
C24_FallbackRan ==
    /\ pc = "fallback"
    /\ FallbackDone(loc)
    /\ Len(BatchDocs) = 2
    /\ batchIndex \in ghost.batchFailed
    /\ ghost.failures = 1

\* The item at position i of the batch is among the low-confidence indices l.low.
QueuedLow(l, i) == \E k \in 1..Len(l.low) : l.low[k] = i - 1

\* C25: in the step that takes a valid batch response, every item of the batch
\* is either recorded done with one result whose confidence is within
\* BATCH_QUALITY_THRESHOLD..100, or is queued as low-confidence and then has
\* no result, is not in processedIds and keeps its status; the loop over the
\* queued items hands each one, in order, to processImageWithRateLimit, which
\* dispatches it; and the answer to its single-item call is recorded as the
\* item's first and only result with the confidence it carries, whether or not
\* that reaches the threshold.
C25_BatchQualityThreshold ==
    [][/\ (pc = "inFlight" /\ loc.callFor = "batch" /\ pc' = "reask")
          => \A i \in 1..Len(BatchDocs) :
                LET id == BatchDocs[i]
                IN IF QueuedLow(loc', i)
                   THEN /\ statuses'[id] = statuses[id]
                        /\ id \notin processedIds'
                        /\ ResultsFor(results', id) = {}
                   ELSE /\ statuses'[id].state = "done"
                        /\ statuses'[id].confidence \in BATCH_QUALITY_THRESHOLD..100
                        /\ id \in processedIds'
                        /\ \E r \in ResultsFor(results', id) :
                              /\ ResultsFor(results', id) = {r}
                              /\ results'[r].confidence = statuses'[id].confidence
       /\ (pc = "reask" /\ loc.lowPos <= Len(loc.low))
          => /\ pc' = "pirEnter"
             /\ loc'.image = BatchDocs[loc.low[loc.lowPos] + 1]
             /\ loc'.caller = "reask"
       /\ (pc = "pirEnter" /\ loc.caller = "reask")
          => /\ pc' = "pirLoop"
             /\ statuses'[loc.image].state = "processing"
       /\ (pc = "inFlight" /\ loc.callFor = "single" /\ loc.caller = "reask"
            /\ Len(results') > Len(results))
          => /\ ResultsFor(results, loc.image) = {}
             /\ ResultsFor(results', loc.image) = {Len(results')}
             /\ statuses'[loc.image] = DoneStatus(results'[Len(results')].confidence)
             /\ results'[Len(results')].confidence \in 0..100
       /\ \A id \in DOMAIN statuses : Cardinality(ResultsFor(results, id)) <= 1]_vars

\* A run has returned after one batch response for two items and no failed
\* call: one item has its result from the batch, the other one a result below
\* the threshold, which only the single-item path records.
C25_Witness ==
    /\ pc = "done"
    /\ outcome = "returned"
    /\ Len(batches) = 1
    /\ Len(batches[1]) = 2
    /\ ghost.responses = 1
    /\ ghost.failures = 0
    /\ Len(results) = 2
    /\ \E r \in 1..2 : results[r].confidence >= BATCH_QUALITY_THRESHOLD
    /\ \E r \in 1..2 : results[r].confidence < BATCH_QUALITY_THRESHOLD

\* acquireKey returns null in this step: the run leaves its loop for the
\* caller's next item or batch, and not through a catch.
AcquiredNone ==
    /\ pc = "akLoop"
    /\ pc' \in {"batchTop", "reask", "fallback"}
    /\ loc'.error = "none"

\* No request is taken from any credential in this step: no bucket loses
\* tokens and no daily count rises.
NothingConsumed ==
    /\ \A id \in DOMAIN rateLimiterInstance.buckets :
          rateLimiterInstance'.buckets[id].tokens
             >= rateLimiterInstance.buckets[id].tokens
    /\ \A id \in DOMAIN rateLimiterInstance.dailyUsage :
          rateLimiterInstance'.dailyUsage[id].count
             <= rateLimiterInstance.dailyUsage[id].count
    /\ results' = results

\* C26: while acquireKey runs for a multi-item batch no call has been made
\* for the batch: no credential is held for it, its items are all processing
\* and without a result, and no step takes a request from a credential unless
\* it starts the call.  When acquireKey returns null for the batch, in that
\* step every item of the batch becomes error with the all-keys-exhausted
\* message, nothing is consumed, and the run is at the top of the batch loop
\* with the next batch.  When it returns null in the single-item path, the
\* item becomes error with that message, nothing is consumed, and
\* processImageWithRateLimit returns to its caller instead of looping.
C26_ExhaustionIsTerminal ==
    [][/\ (pc \in {"akLoop", "akSleep"} /\ loc.akFor = "batch")
          => /\ loc.batchKey = NullKey /\ loc.callFor = "none"
             /\ \A i \in 1..Len(BatchDocs) :
                   /\ statuses[BatchDocs[i]] = Processing
                   /\ BatchDocs[i] \notin processedIds
                   /\ ResultsFor(results, BatchDocs[i]) = {}
             /\ pc' \notin {"inFlight", "fallback"} => NothingConsumed
       /\ (AcquiredNone /\ loc.akFor = "batch")
          => /\ \A i \in 1..Len(BatchDocs) :
                   /\ statuses'[BatchDocs[i]] = ErrorStatus(MsgAllKeysExhausted)
                   /\ BatchDocs[i] \in processedIds'
                   /\ ghost'.recorded[BatchDocs[i]] = 1
             /\ NothingConsumed
             /\ pc' = "batchTop"
             /\ batchIndex' = batchIndex + 1
       /\ (AcquiredNone /\ loc.akFor = "pir")
          => /\ statuses'[loc.image] = ErrorStatus(MsgAllKeysExhausted)
             /\ loc.image \in processedIds'
             /\ ghost'.recorded[loc.image] = 1
             /\ NothingConsumed
             /\ pc' = RetPir(loc).pc
             /\ loc' = RetPir(loc).loc]_vars

\* A run has returned whose one batch had two items: no credential was
\* available for it, and both items ended with the all-keys-exhausted message
\* without a response or a failed call.
C26_Witness ==
    /\ pc = "done"
    /\ outcome = "returned"
    /\ Len(batches) = 1
    /\ Len(batches[1]) = 2
    /\ \A id \in DOMAIN statuses : statuses[id] = ErrorStatus(MsgAllKeysExhausted)
    /\ ghost.responses = 0
    /\ ghost.failures = 0

\* The single-item path has found no credential for the second of two items
\* that were too large for one batch, after the first ended the same way.
C26_SingleWitness ==
    /\ pc = "batchTop"
    /\ batchIndex = 3
    /\ Len(batches) = 2
    /\ \A id \in DOMAIN statuses : statuses[id] = ErrorStatus(MsgAllKeysExhausted)
    /\ ghost.failures = 0

\* The single-item call of processImageWithRateLimit fails in this step: the
\* run leaves the call without a result.
SingleCallFailed ==
    /\ pc \in {"inFlight", "retrySleep"}
    /\ loc.callFor = "single"
    /\ pc' \notin {"inFlight", "retrySleep"}
    /\ results' = results

\* C27: when the single-item call fails, either the error is a rate-limit
\* error, the credential that served the call has no tokens afterwards, the
\* item's retry count rises by one and the item stays processing and
\* unprocessed; or the item is set to error with a message that is an error
\* of the call and not a rate-limit error, is processed, the serving
\* credential loses nothing, and processImageWithRateLimit returns to its
\* caller.  The retry count is below maxRetriesPerImage whenever the item is
\* waiting for a credential or has a call under way, so the item has at most
\* maxRetriesPerImage calls, and never above it; when it has reached it, the
\* item is set to error with the rate-limit-exceeded message and
\* processImageWithRateLimit returns.
C27_RetryAccounting ==
    [][/\ SingleCallFailed
          => IF pc' = "pirLoop"
             THEN /\ isRateLimitError(loc'.error)
                  /\ loc'.retryCount = loc.retryCount + 1
                  /\ rateLimiterInstance'.buckets[loc.bestKey.id].tokens = 0
                  /\ statuses'[loc.image] = Processing
                  /\ loc.image \notin processedIds'
                  /\ loc'.image = loc.image
             ELSE /\ statuses'[loc.image].state = "error"
                  /\ statuses'[loc.image].error \in ClientErrors \cup {ErrAborted}
                  /\ ~isRateLimitError(statuses'[loc.image].error)
                  /\ loc.image \in processedIds'
                  /\ rateLimiterInstance'.buckets[loc.bestKey.id].tokens
                        >= rateLimiterInstance.buckets[loc.bestKey.id].tokens
                  /\ pc' = RetPir(loc).pc
                  /\ loc' = RetPir(loc).loc
       /\ (pc \in {"akLoop", "akSleep"} /\ loc.akFor = "pir")
          => loc.retryCount < RATE_LIMIT_CONFIG.maxRetriesPerImage
       /\ (pc \in {"inFlight", "retrySleep"} /\ loc.callFor = "single")
          => loc.retryCount < RATE_LIMIT_CONFIG.maxRetriesPerImage
       /\ loc.retryCount <= RATE_LIMIT_CONFIG.maxRetriesPerImage
       /\ (pc = "pirLoop" /\ loc.retryCount >= RATE_LIMIT_CONFIG.maxRetriesPerImage)
          => /\ statuses'[loc.image] = ErrorStatus(MsgRateLimitExceeded)
             /\ loc.image \in processedIds'
             /\ pc' = RetPir(loc).pc
             /\ loc' = RetPir(loc).loc]_vars

\* The single-item call has just failed with a rate-limit error for the
\* maxRetriesPerImage-th time: the item is still processing and the loop is
\* about to end.
C27_Witness ==
    /\ pc = "pirLoop"
    /\ loc.retryCount = RATE_LIMIT_CONFIG.maxRetriesPerImage
    /\ isRateLimitError(loc.error)
    /\ statuses[loc.image] = Processing
    /\ ghost.failures = RATE_LIMIT_CONFIG.maxRetriesPerImage

\* An item has ended with the message of a failure that is not a rate-limit
\* error, after one failed call.
C27_OtherFailure ==
    /\ pc = "done"
    /\ outcome = "returned"
    /\ Len(images) = 1
    /\ statuses[1] = ErrorStatus(ErrOther)
    /\ ghost.failures = 1

InProcessing == {id \in DOMAIN statuses : statuses[id].state = "processing"}

\* The items of the batch that the loop calling processImageWithRateLimit has
\* yet to pass, the one being dispatched included.
AwaitingDispatch ==
    CASE loc.caller = "fallback" ->
           {BatchDocs[i] : i \in loc.fbPos..Len(BatchDocs)}
      [] loc.caller = "reask" ->
           {BatchDocs[loc.low[k] + 1] : k \in loc.lowPos..Len(loc.low)}
      [] OTHER -> {loc.image}

\* C30 as stated: whenever a single-item call is in flight, the item being
\* dispatched is the only one in processing state.
C30_ExactlyOneProcessing ==
    (pc = "inFlight" /\ loc.callFor = "single") => InProcessing = {loc.image}

\* C30, amended: whenever a single-item call is in flight, the items in
\* processing state are the item being dispatched and the items of the same
\* batch that still wait for their own dispatch, the rest of a batch whose
\* call failed or of the low-confidence documents of a batch response, and no
\* others; none of them is processed; the item of a batch of one is the only
\* one.
C30_ProcessingAreAwaitingDispatch ==
    (pc = "inFlight" /\ loc.callFor = "single")
       => /\ loc.image \in InProcessing
          /\ InProcessing = AwaitingDispatch
          /\ InProcessing \cap processedIds = {}
          /\ Len(BatchDocs) = 1 => InProcessing = {loc.image}

\* The single-item call for the first item of a batch of two is in flight
\* after the batch call failed; the second item is still in processing state.
C30_Witness ==
    /\ pc = "inFlight"
    /\ loc.callFor = "single"
    /\ loc.caller = "fallback"
    /\ loc.fbPos = 1
    /\ Cardinality(InProcessing) = 2

\* The position of the item id in the batch in progress.
PosInBatch(id) == CHOOSE i \in 1..Len(BatchDocs) : BatchDocs[i] = id

\* An item of the batch is handed to processImageWithRateLimit in this step.
Dispatching == pc \in {"reask", "fallback"} /\ pc' = "pirEnter"

\* C31: the batch index never goes back and rises by one at a time, and only
\* when every item of the batch is processed; and when an item of a batch is
\* dispatched individually, by the fallback loop or by the loop over the
\* low-confidence documents, every item that precedes it in the batch has been
\* processed already.
C31_DispatchOrder ==
    [][/\ (pc # "idle" /\ batchIndex' # batchIndex)
          => /\ batchIndex' = batchIndex + 1
             /\ \A i \in 1..Len(BatchDocs) : BatchDocs[i] \in processedIds'
       /\ Dispatching
          => \A j \in 1..(PosInBatch(loc'.image) - 1) :
                BatchDocs[j] \in processedIds]_vars

\* The same for the fallback loop alone, with the order of the batches.
C31_FallbackOrder ==
    [][/\ (pc # "idle" /\ batchIndex' # batchIndex)
          => /\ batchIndex' = batchIndex + 1
             /\ \A i \in 1..Len(BatchDocs) : BatchDocs[i] \in processedIds'
       /\ (Dispatching /\ pc = "fallback")
          => \A j \in 1..(PosInBatch(loc'.image) - 1) :
                BatchDocs[j] \in processedIds]_vars

\* The batch in progress ends in this step.
BatchEnds == pc # "idle" /\ batchIndex' = batchIndex + 1

\* The snapshot last emitted shows every item of the batch in progress in the
\* terminal status it has after this step.
BatchShownTerminal ==
    /\ progress'.emitted
    /\ \A i \in 1..Len(BatchDocs) :
          /\ Terminal(statuses'[BatchDocs[i]])
          /\ progress'.statuses[BatchDocs[i]] = statuses'[BatchDocs[i]]

\* C32: when a batch ends, whether of one item or several and whether by
\* success, by fallback or for want of a credential, the snapshot last emitted
\* shows the terminal status of every item of the batch before the next batch
\* starts or the call returns.
C32_SnapshotAfterBatch == [][BatchEnds => BatchShownTerminal]_vars

\* The same for every batch but one that processImageWithRateLimit left
\* because acquireKey gave it no credential.
C32_SnapshotUnlessNoKey ==
    [][(BatchEnds /\ ~(AcquiredNone /\ loc.akFor = "pir")) => BatchShownTerminal]_vars

\* A request is issued to the ExtractionClient in this step: an attempt of
\* withRetry passes the checks of the signal and calls generateContent.
IssuesRequest == pc # "inFlight" /\ pc' = "inFlight"

\* The credential the call under way after this step was given.
ServingKey == IF loc'.callFor = "single" THEN loc'.bestKey ELSE loc'.batchKey

\* One request is taken from the credential key in this step: its bucket,
\* refilled, loses one token, and its daily count, set to 0 first if its day
\* is over, rises by one.
ConsumesFrom(key) ==
    LET bucket == rateLimiterInstance.buckets[key.id]
        usage == rateLimiterInstance.dailyUsage[key.id]
        counted == IF now' >= usage.resetAt THEN 0 ELSE usage.count
    IN /\ rateLimiterInstance'.buckets[key.id].tokens =
             refillBucket(bucket, key.tier, now').tokens - TokenUnit
       /\ rateLimiterInstance'.dailyUsage[key.id].count = counted + 1

\* C34: every step that issues a request to the ExtractionClient, the first
\* attempt of a call or one repeated by withRetry after a retryable error,
\* takes one token from the serving credential and adds one to its daily
\* count.
C34_RequestsAreConsumed ==
    [][IssuesRequest => ConsumesFrom(ServingKey)]_vars

\* The same for the first attempt of each call alone.
C34_FirstAttemptsConsume ==
    [][(IssuesRequest /\ loc'.attempt = 0) => ConsumesFrom(ServingKey)]_vars

StatusCount(state) == Cardinality({id \in DOMAIN statuses : statuses[id].state = state})

\* C35: when processFiles has returned normally, every submitted item has a
\* status and it is done or error, the items done are as many as the results
\* returned, each with one result, and the results and the items in error
\* together are as many as the items submitted.
C35_FullAccounting ==
    outcome = "returned" =>
        /\ DOMAIN statuses = ImageIds(images)
        /\ \A id \in DOMAIN statuses : Terminal(statuses[id])
        /\ StatusCount("done") = Len(results)
        /\ \A id \in DOMAIN statuses :
              statuses[id].state = "done" <=> ResultsFor(results, id) # {}
        /\ Len(results) + StatusCount("error") = Len(images)

\* A run of two items has returned with one result and one item in error.
C35_Witness ==
    /\ outcome = "returned"
    /\ Len(images) = 2
    /\ Len(results) = 1
    /\ StatusCount("done") = 1
    /\ StatusCount("error") = 1
    /\ ghost.failures > 0

\* The statements of processFiles and of the functions it calls that run
\* without waiting for anything.
RunSteps == BatchTop \/ PirEnter \/ PirLoop \/ AcquireKey \/ Reask \/ Fallback

\* The ExtractionClient answers the call under way or fails it.
ClientAnswers == SingleResponse \/ BatchResponse \/ CallFails

\* A sleep of acquireKey or of withRetry elapses.
SleepsElapse == AcquireWake \/ RetryWake

\* No call of processFiles is under way.
Halted == pc \in {"idle", "done"}

\* processFiles under a scheduler that runs what can run: the event loop
\* resumes a function whose await has settled, every client call returns or
\* throws, and every timer fires.  The caller is free to cancel or not.  This
\* is weak fairness of the three actions together, written out: while a call
\* is under way exactly one of them is enabled, the one pc names.
Scheduling == []<>Halted \/ []<><<RunSteps \/ ClientAnswers \/ SleepsElapse>>_vars

\* The runs whose termination is checked: storage holds the record of a
\* credential drained just now, so that keys have to be waited for, and the
\* items of a run are all of one size, so that they form one batch of
\* several items or batches of one item each.
InitLive ==
    /\ Init
    /\ localStorage = [bucket |-> BucketRecord(TRUE, 0, T0),
                       daily |-> DailyRecord(5, DayMs)]

StartLive ==
    /\ Start
    /\ \A i, j \in DOMAIN images' : images'[i].pageCount = images'[j].pageCount

NextLive ==
    \/ StartLive
    \/ BatchTop
    \/ PirEnter
    \/ PirLoop
    \/ AcquireKey
    \/ AcquireWake
    \/ SingleResponse
    \/ BatchResponse
    \/ CallFails
    \/ RetryWake
    \/ Reask
    \/ Fallback
    \/ Abort

SpecLive == InitLive /\ [][NextLive]_vars /\ Scheduling

\* The loops of a run are bounded: processImage is called at most
\* maxRetriesPerImage times per item, acquireKey sleeps at most
\* maxRetriesPerImage times per call, withRetry makes at most maxRetries + 1
\* attempts per call, and processBatch is called at most once per batch and
\* only for a batch of several items.
LoopsBounded ==
    /\ \A id \in DOMAIN ghost.singleCalls :
          ghost.singleCalls[id] <= RATE_LIMIT_CONFIG.maxRetriesPerImage
    /\ loc.akRetry <= RATE_LIMIT_CONFIG.maxRetriesPerImage
    /\ loc.attempt + 1 <= RETRY_CONFIG.maxRetries + 1
    /\ \A b \in DOMAIN ghost.batchCalls :
          /\ ghost.batchCalls[b] <= 1
          /\ Len(batches[b]) = 1 => ghost.batchCalls[b] = 0

\* C37: a call of processFiles ends, by returning or by throwing, whatever the
\* list of items and the list of credentials, provided every client call
\* returns or throws and every sleep elapses, the client failing no more
\* than FailureBudget calls; and its loops are bounded as LoopsBounded says.
C37_Termination ==
    /\ (pc # "idle") ~> (pc = "done")
    /\ []LoopsBounded

\* A run has returned after one call of processBatch and after an item of
\* the batch used up its calls of processImage.
C37_Witness ==
    /\ pc = "done"
    /\ outcome = "returned"
    /\ \E id \in DOMAIN ghost.singleCalls :
          ghost.singleCalls[id] = RATE_LIMIT_CONFIG.maxRetriesPerImage
    /\ \E b \in DOMAIN ghost.batchCalls : ghost.batchCalls[b] = 1

\* C38: once the signal is set no request is issued to the ExtractionClient,
\* be it for one item or for a batch, a first attempt or a retry: the call
\* that was under way when the signal was set is the last one of the run.
C38_NoRequestAfterCancel ==
    [][aborted => ~IssuesRequest]_vars

\* The run was cancelled during the sleep before a retry and has ended with
\* AbortError, leaving an item without a terminal status.
C38_Witness ==
    /\ aborted
    /\ pc = "done"
    /\ outcome = "AbortError"
    /\ ghost.failures > 0
    /\ \E id \in DOMAIN statuses : ~Terminal(statuses[id])

\* The credential the call under way was given.
ServedBy == IF loc.callFor = "single" THEN loc.bestKey ELSE loc.batchKey

\* The daily record of credential id as the limiter holds it, or as storage
\* holds it while the limiter has not read it.
DailyRecorded(id) == id \in DOMAIN RLDaily \/ id \in DOMAIN localStorage.daily

DailyOf(id) == IF id \in DOMAIN RLDaily THEN RLDaily[id] ELSE localStorage.daily[id]

\* C39: in a run of processFiles the daily count of a credential of a tier
\* with a daily limit never exceeds the limit, and a credential whose count
\* has reached the limit is given to no call before its reset time: every
\* call is dispatched by getBestKey followed by consumeRequest on the
\* credential selected.
C39_DailyQuotaKept ==
    [][/\ \A i \in 1..Len(rateLimiterInstance'.keys) :
             LET key == rateLimiterInstance'.keys[i]
                 rpd == TIER_LIMITS[key.tier].rpd
             IN (rpd # RpdUnlimited /\ key.id \in DOMAIN rateLimiterInstance'.dailyUsage) =>
                    rateLimiterInstance'.dailyUsage[key.id].count <= rpd
       /\ (IssuesRequest /\ loc'.attempt = 0) =>
             LET key == ServingKey
                 rpd == TIER_LIMITS[key.tier].rpd
             IN (/\ rpd # RpdUnlimited
                 /\ DailyRecorded(key.id)
                 /\ DailyOf(key.id).count >= rpd) => now' >= DailyOf(key.id).resetAt
      ]_vars

\* A call was given k2 while k1, the first credential and the one with more
\* tokens, stood at its daily limit before its reset time.
C39_Witness ==
    /\ pc = "inFlight"
    /\ loc.attempt = 0
    /\ ServedBy.id = "k2"
    /\ "k1" \in DOMAIN RLDaily
    /\ RLDaily["k1"].count = TIER_LIMITS["free"].rpd
    /\ now < RLDaily["k1"].resetAt
    /\ RLDaily["k2"].count > 0

----------------------------------------------------------------------------
(* processImage and processBatch as functions of the client's response *)

MaxDocs == 2          \* documents in a batch response

\* Confidence values a response may carry, in and out of the range 0..100
RawConfidences == {-40, -1, 0, 1, 29, 30, 99, 100, 101, 150}

RawMeta == [confidence : RawConfidences, requires_review : BOOLEAN]

\* gemini.ts, lines 391 and 405-408 (489 and 503-506): the _meta of the
\* result.  Math.round leaves an integer as it is.
ExtractedMeta(meta) ==
    [confidence |-> ClampConfidence(meta.confidence),
     requires_review |-> meta.requires_review]

\* processImage, lines 390-415
processImage(meta) == [result |-> ExtractedMeta(meta)]

\* processBatch, lines 481-511: result.documents.map(...)
processBatchMap(docs) ==
    [d \in 1..Len(docs) |->
        [result |-> ExtractedMeta(docs[d].meta), sourceIndex |-> docs[d].source_index]]

\* The documents of a batch response for n items
RawDocuments(n) ==
    [1..n -> [source_index : 0..(n - 1), meta : RawMeta]]

InitExtract ==
    /\ OrchIdle
    /\ UnitIdle
    /\ now = T0
    /\ localStorage = [bucket |-> EmptyMap, daily |-> EmptyMap]
    /\ rateLimiterInstance = NoInstance
    /\ lastOp = NoOp
    /\ opSeq = 0
    /\ ticks = 0

\* processImage on a response with the _meta meta
ExtractSingle ==
    /\ extracted = NoExtract
    /\ \E meta \in RawMeta :
          extracted' = [path |-> "single", raw |-> <<[source_index |-> 0, meta |-> meta]>>,
                        out |-> <<processImage(meta)>>, error |-> "none"]
    /\ UNCHANGED <<limiterVars, probeVars, orchVars, retry, planned, acquire, restart>>

\* processBatch on a response of n documents for n items
ExtractBatch ==
    /\ extracted = NoExtract
    /\ \E n \in 1..MaxDocs : \E docs \in RawDocuments(n) :
          LET e == BatchValidationError(docs, n)
          IN extracted' = [path |-> "batch", raw |-> docs,
                           out |-> IF e = "none" THEN processBatchMap(docs) ELSE <<>>,
                           error |-> e]
    /\ UNCHANGED <<limiterVars, probeVars, orchVars, retry, planned, acquire, restart>>

NextExtract == ExtractSingle \/ ExtractBatch

SpecExtract == InitExtract /\ [][NextExtract]_vars

\* C15: the confidence of every result is min(100, max(0, raw)), which lies in
\* 0..100 and is the raw value when that is in range, and the result's
\* requires_review is the flag of the response.
C15_ConfidenceClamped ==
    \A d \in 1..Len(extracted.out) :
        LET raw == extracted.raw[d].meta
            meta == extracted.out[d].result
        IN /\ meta.confidence = Min(100, Max(0, raw.confidence))
           /\ meta.confidence \in 0..100
           /\ raw.confidence \in 0..100 => meta.confidence = raw.confidence
           /\ meta.requires_review = raw.requires_review

\* A batch response has had a document with confidence 150 stored as 100
\* with its flag set, and one with confidence 99 stored unchanged.
C15_Witness ==
    /\ extracted.path = "batch"
    /\ Len(extracted.out) = 2
    /\ extracted.raw[1].meta = [confidence |-> 150, requires_review |-> TRUE]
    /\ extracted.out[1].result = [confidence |-> 100, requires_review |-> TRUE]
    /\ extracted.raw[2].meta = [confidence |-> 99, requires_review |-> FALSE]
    /\ extracted.out[2].result = [confidence |-> 99, requires_review |-> FALSE]

----------------------------------------------------------------------------
(* withRetry (utils/retry.ts) around any operation fn *)

MaxRetriesOption == 3     \* options.maxRetries; RETRY_CONFIG.maxRetries by default

FnValues == {"r1", "r2"}      \* what fn may return

\* options.baseDelayMs and options.maxDelayMs: the defaults of RETRY_CONFIG,
\* and a ceiling that the third delay reaches.
DelayOptions ==
    {[baseDelayMs |-> RETRY_CONFIG.baseDelayMs, maxDelayMs |-> RETRY_CONFIG.maxDelayMs],
     [baseDelayMs |-> 1000, maxDelayMs |-> 3000]}

\* What fn may throw: a client error, or, once the signal is set, the
\* DOMException("Aborted", "AbortError") of gemini.ts, lines 370-372.
FnErrors(r) == ClientErrors \cup (IF r.signal THEN {ErrAborted} ELSE {})

\* A check that never sees the signal.
SignalAbortedNever(r) == FALSE

\* withRetry, line 56: signal?.aborted
SignalAborted(r) == r.signal

InitRetry ==
    /\ OrchIdle
    /\ UnitIdle
    /\ now = T0
    /\ localStorage = [bucket |-> EmptyMap, daily |-> EmptyMap]
    /\ rateLimiterInstance = NoInstance
    /\ lastOp = NoOp
    /\ opSeq = 0
    /\ ticks = 0

RetryStep(r) ==
    /\ retry' = r
    /\ UNCHANGED <<limiterVars, probeVars, orchVars, extracted, planned, acquire, restart>>

\* withRetry is called: lines 40-52
RetryCall ==
    /\ retry.pc = "idle"
    /\ \E m \in 0..MaxRetriesOption, sig \in BOOLEAN, d \in DelayOptions :
          RetryStep([NoRetry EXCEPT !.pc = "loop", !.maxRetries = m, !.signal = sig,
                                    !.baseDelayMs = d.baseDelayMs,
                                    !.maxDelayMs = d.maxDelayMs])

\* The head of the loop, the check of the signal and the call of fn: lines
\* 54-61; past the loop, line 82
RetryLoop ==
    /\ retry.pc = "loop"
    /\ IF retry.attempt > retry.maxRetries
       THEN RetryStep([retry EXCEPT !.pc = "thrown", !.thrown = retry.lastError])
       ELSE IF SignalAborted(retry)
       THEN RetryStep([retry EXCEPT !.pc = "thrown", !.thrown = ErrAborted])
       ELSE RetryStep([retry EXCEPT !.pc = "running", !.calls = @ + 1])

\* fn returns: line 61
RetryFnReturns ==
    /\ retry.pc = "running"
    /\ \E v \in FnValues :
          RetryStep([retry EXCEPT !.pc = "returned", !.result = v,
                                  !.returns = Append(@, v)])

\* fn throws: lines 62-78, up to the start of the sleep
RetryFnThrows ==
    /\ retry.pc = "running"
    /\ \E e \in FnErrors(retry) :
          LET r == [retry EXCEPT !.lastError = e, !.errors = Append(@, e)]
          IN IF Rethrows(e, retry.attempt, retry.maxRetries)
             THEN RetryStep([r EXCEPT !.pc = "thrown", !.thrown = e])
             ELSE LET delay == BackoffDelay(retry.attempt, retry.baseDelayMs,
                                            retry.maxDelayMs)
                  IN RetryStep([r EXCEPT !.pc = "sleeping",
                                         !.delay = delay,
                                         !.retries = Append(@, retry.attempt + 1),
                                         !.retryErrors = Append(@, e),
                                         !.delays = Append(@, delay)])

\* The sleep ends: line 78 and the attempt++ of line 54
RetrySleepEnds ==
    /\ retry.pc = "sleeping"
    /\ RetryStep([retry EXCEPT !.pc = "loop", !.attempt = @ + 1, !.delay = 0])

\* The caller aborts the signal while withRetry awaits fn or sleeps.
RetrySignal ==
    /\ retry.pc \in {"running", "sleeping"}
    /\ ~retry.signal
    /\ RetryStep([retry EXCEPT !.signal = TRUE])

NextRetry ==
    \/ RetryCall
    \/ RetryLoop
    \/ RetryFnReturns
    \/ RetryFnThrows
    \/ RetrySleepEnds
    \/ RetrySignal

SpecRetry == InitRetry /\ [][NextRetry]_vars

C19_CancellationChecked ==
    [][/\ retry'.calls # retry.calls => (retry.pc = "loop" /\ ~retry.signal)
       /\ (retry.pc = "loop" /\ retry.signal /\ retry' # retry) =>
             /\ retry'.pc = "thrown"
             /\ retry'.thrown = ErrAborted
             /\ retry'.calls = retry.calls
       /\ \A k \in 1..Len(retry'.errors) :
             retry'.errors[k] = ErrAborted =>
                /\ k = Len(retry'.errors)
                /\ retry'.pc = "thrown"
                /\ retry'.thrown = ErrAborted
                /\ retry'.calls = k
                /\ Len(retry'.delays) = k - 1
      ]_vars

\* The signal was set during the sleep after a first failure: the check
\* before the second attempt threw the AbortError and fn was not invoked again.
C19_Witness ==
    /\ retry.pc = "thrown"
    /\ retry.signal
    /\ retry.thrown = ErrAborted
    /\ retry.calls = 1
    /\ Len(retry.errors) = 1
    /\ retry.errors[1] # ErrAborted
    /\ Len(retry.delays) = 1

\* C29: the k-th sleep of a withRetry call follows the failed attempt number
\* k - 1 and lasts baseDelayMs * 2^(k-1) ms, or maxDelayMs if that is less;
\* the delays of the call never decrease and never exceed maxDelayMs; and
\* onRetry has been invoked once for each sleep, before it, the k-th time with
\* the attempt number k and the error the attempt number k - 1 threw.
C29_Backoff ==
    LET n == Len(retry.delays)
    IN /\ Len(retry.retries) = n
       /\ Len(retry.retryErrors) = n
       /\ n = retry.attempt + (IF retry.pc = "sleeping" THEN 1 ELSE 0)
       /\ \A k \in 1..n :
             /\ retry.delays[k] =
                   IF retry.baseDelayMs * 2^(k - 1) <= retry.maxDelayMs
                   THEN retry.baseDelayMs * 2^(k - 1)
                   ELSE retry.maxDelayMs
             /\ retry.delays[k] <= retry.maxDelayMs
             /\ k > 1 => retry.delays[k] >= retry.delays[k - 1]
             /\ retry.retries[k] = k
             /\ retry.retryErrors[k] = retry.errors[k]
       /\ retry.pc = "sleeping" => retry.delay = retry.delays[n]

\* withRetry sleeps for the third time: the delay has reached the ceiling of
\* 3000 ms, and onRetry has seen the three errors, which differ.
C29_Witness ==
    /\ retry.pc = "sleeping"
    /\ retry.maxDelayMs = 3000
    /\ retry.delays = <<1000, 2000, 3000>>
    /\ retry.retries = <<1, 2, 3>>
    /\ retry.retryErrors = <<ErrServer, ErrRateLimit, ErrServer>>

----------------------------------------------------------------------------
(* createDynamicBatches as a function of the list of work items *)

MaxPlanItems == 4     \* work items handed to createDynamicBatches

\* 1 page: three items fill a batch; 20 pages: two items exceed the token
\* budget; 40 pages: one item with the overhead exceeds it; 50 pages: the
\* cost of one item exceeds it.
PlanPageCounts == {1, 20, 40, 50}

\* Work-item lists with distinct ids in any order
PlanInputs ==
    UNION {{imgs \in [1..n -> [id : 1..n, pageCount : PlanPageCounts]] :
               \A i, j \in 1..n : imgs[i].id = imgs[j].id => i = j} : n \in 0..MaxPlanItems}

InitPlan ==
    /\ OrchIdle
    /\ UnitIdle
    /\ now = T0
    /\ localStorage = [bucket |-> EmptyMap, daily |-> EmptyMap]
    /\ rateLimiterInstance = NoInstance
    /\ lastOp = NoOp
    /\ opSeq = 0
    /\ ticks = 0

\* createDynamicBatches is called on a list, and once more on the same list.
PlanBatches ==
    /\ ~planned.called
    /\ \E imgs \in PlanInputs :
          planned' = [called |-> TRUE, imgs |-> imgs,
                      batches |-> createDynamicBatches(imgs),
                      again |-> createDynamicBatches(imgs)]
    /\ UNCHANGED <<limiterVars, probeVars, orchVars, extracted, retry, acquire, restart>>

NextPlan == PlanBatches

SpecPlan == InitPlan /\ [][NextPlan]_vars

RECURSIVE Flatten(_)
Flatten(seqs) == IF seqs = <<>> THEN <<>> ELSE Head(seqs) \o Flatten(Tail(seqs))

PlannedImage(id) ==
    planned.imgs[CHOOSE i \in 1..Len(planned.imgs) : planned.imgs[i].id = id]

TokenCost(image) ==
    image.pageCount * TOKENS_PER_IMAGE_PAGE + ESTIMATED_RESPONSE_TOKENS_PER_DOC

RECURSIVE BatchTokens(_)
BatchTokens(batch) ==
    IF batch = <<>> THEN PROMPT_OVERHEAD_TOKENS
    ELSE TokenCost(PlannedImage(Head(batch))) + BatchTokens(Tail(batch))

\* C21: a batch holds at most MAX_DOCS_PER_BATCH items; a batch of two or more
\* items costs, with the overhead, at most TOKEN_BUDGET_PER_REQUEST; an item
\* that with the overhead costs more than the budget is in a batch of its own.
C21_BatchBounds ==
    planned.called =>
       \A b \in 1..Len(planned.batches) :
          LET batch == planned.batches[b]
          IN /\ Len(batch) <= MAX_DOCS_PER_BATCH
             /\ Len(batch) >= 2 => BatchTokens(batch) <= TOKEN_BUDGET_PER_REQUEST
             /\ \A k \in 1..Len(batch) :
                   PROMPT_OVERHEAD_TOKENS + TokenCost(PlannedImage(batch[k]))
                      > TOKEN_BUDGET_PER_REQUEST => Len(batch) = 1

\* Three one-page items filled a batch and a 50-page item, whose cost alone
\* is over the budget, went into a batch of its own.
C21_Witness ==
    /\ planned.called
    /\ Len(planned.imgs) = 4
    /\ \A i \in 1..3 : planned.imgs[i].pageCount = 1
    /\ planned.imgs[4].pageCount = 50
    /\ TokenCost(planned.imgs[4]) > TOKEN_BUDGET_PER_REQUEST
    /\ Len(planned.batches) = 2
    /\ Len(planned.batches[1]) = 3
    /\ planned.batches[2] = <<planned.imgs[4].id>>

----------------------------------------------------------------------------
(* acquireKey (gemini.ts) on any rate limiter: getBestKey and getWaitTime  *)
(* answer as the limiter's state at that moment makes them                 *)

\* What getWaitTime may answer, ms: around the cap of the sleep and around
\* the tolerable wait.
WaitTimes == {1000, 5000, 5001, 30000, 30001}

InitAcquire ==
    /\ OrchIdle
    /\ UnitIdle
    /\ now = T0
    /\ localStorage = [bucket |-> EmptyMap, daily |-> EmptyMap]
    /\ rateLimiterInstance = NoInstance
    /\ lastOp = NoOp
    /\ opSeq = 0
    /\ ticks = 0

AcquireStep(a) ==
    /\ acquire' = a
    /\ UNCHANGED <<limiterVars, probeVars, orchVars, extracted, retry, planned, restart>>

\* acquireKey is called: lines 560-565
AcquireCall ==
    /\ acquire.pc = "idle"
    /\ \E sig \in BOOLEAN :
          AcquireStep([NoAcquire EXCEPT !.pc = "loop", !.signal = sig])

\* One iteration up to its return or its sleep: lines 566-582; past the
\* loop, line 585
AcquireIteration ==
    /\ acquire.pc = "loop"
    /\ IF AcquireGivesUp(acquire.retryCount)
       THEN AcquireStep([acquire EXCEPT !.pc = "returned", !.result = "null"])
       ELSE IF acquire.signal
       THEN AcquireStep([acquire EXCEPT !.pc = "thrown", !.checks = @ + 1,
                                        !.result = ErrAborted])
       ELSE \E bestKey \in {NullKey, [id |-> "k1", tier |-> "free"]} :
               LET a == [acquire EXCEPT !.checks = @ + 1, !.polls = @ + 1,
                                        !.best = bestKey.id]
               IN IF bestKey # NullKey
                  THEN AcquireStep([a EXCEPT !.pc = "returned", !.result = bestKey.id])
                  ELSE \E waitTime \in WaitTimes :
                          IF WaitTooLong(waitTime)
                          THEN AcquireStep([a EXCEPT !.pc = "returned",
                                                     !.wait = waitTime,
                                                     !.result = "null"])
                          ELSE AcquireStep([a EXCEPT
                                  !.pc = "sleeping",
                                  !.wait = waitTime,
                                  !.reported = Append(@, waitTime),
                                  !.slept = Append(@, AcquireSleepMs(waitTime))])

\* The sleep ends: lines 582-583
AcquireSleepEnds ==
    /\ acquire.pc = "sleeping"
    /\ AcquireStep([acquire EXCEPT !.pc = "loop", !.retryCount = @ + 1])

\* The caller aborts the signal while acquireKey sleeps.
AcquireSignal ==
    /\ acquire.pc = "sleeping"
    /\ ~acquire.signal
    /\ AcquireStep([acquire EXCEPT !.signal = TRUE])

NextAcquire ==
    \/ AcquireCall
    \/ AcquireIteration
    \/ AcquireSleepEnds
    \/ AcquireSignal

SpecAcquire == InitAcquire /\ [][NextAcquire]_vars

\* C28: acquireKey sleeps as often as it calls reportWaiting, at most
\* maxRetriesPerImage times, each time for the smaller of the reported wait
\* and 5000 ms, and no reported wait exceeds the tolerable wait.  It returns a
\* credential only in the iteration in which getBestKey gave it, without a
\* report or sleep in that iteration; it returns none either in the iteration
\* in which no credential was given and getWaitTime exceeded the tolerable
\* wait, again without report or sleep, or after maxRetriesPerImage sleeps.
\* Every call of getBestKey comes after a check of the signal in the same
\* iteration: a signal set at the start of an iteration ends the call with
\* AbortError before the limiter is asked.
C28_BoundedPoll ==
    LET sleeps == Len(acquire.slept)
        max == RATE_LIMIT_CONFIG.maxRetriesPerImage
    IN /\ Len(acquire.reported) = sleeps
       /\ sleeps = acquire.retryCount + (IF acquire.pc = "sleeping" THEN 1 ELSE 0)
       /\ sleeps <= max
       /\ \A k \in 1..sleeps :
             /\ acquire.reported[k] <= RATE_LIMIT_CONFIG.maxWaitTimeMs
             /\ acquire.slept[k] = IF acquire.reported[k] <= 5000
                                   THEN acquire.reported[k] ELSE 5000
       /\ (acquire.pc = "returned" /\ acquire.result # "null")
          => /\ acquire.result = acquire.best
             /\ acquire.best # NullKey.id
             /\ acquire.polls = sleeps + 1
       /\ (acquire.pc = "returned" /\ acquire.result = "null")
          => \/ /\ acquire.polls = sleeps + 1
                /\ acquire.best = NullKey.id
                /\ acquire.wait > RATE_LIMIT_CONFIG.maxWaitTimeMs
             \/ /\ acquire.polls = sleeps
                /\ sleeps = max
       /\ acquire.pc = "sleeping"
          => /\ acquire.best = NullKey.id
             /\ acquire.wait = acquire.reported[sleeps]
             /\ acquire.polls = sleeps
       /\ acquire.checks = acquire.polls + (IF acquire.pc = "thrown" THEN 1 ELSE 0)
       /\ acquire.pc = "thrown" => acquire.signal /\ acquire.result = ErrAborted
       /\ (acquire.signal /\ acquire.pc = "returned")
          => acquire.result = "null" /\ sleeps = max

\* acquireKey has returned none after three sleeps, two of them cut to 5000 ms.
C28_Witness ==
    /\ acquire.pc = "returned"
    /\ acquire.result = "null"
    /\ acquire.reported = <<5001, 1000, 30000>>
    /\ acquire.slept = <<5000, 1000, 5000>>
    /\ acquire.polls = 3


----------------------------------------------------------------------------
(* One bucket in the arithmetic of the program: tokens is a Number, an     *)
(* IEEE 754 double, and rpm / 60_000 is no exact fraction in it            *)

\* A number is written in binary, most significant bit first, with FracBits
\* bits after the point.  Every double the refill of a bucket produces here
\* is such a number, and so is every exact product and sum on the way to
\* it; Nearest rounds an exact result to the double the program holds.
MantissaBits == 53    \* significant bits of a Number
FracBits == 68        \* bits after the point
Width == FracBits + 12

Bits(f) == SubSeq(f, 1, Width)

Zero == Bits([i \in 1..Width |-> 0])

RECURSIVE BitOf(_, _)
BitOf(n, k) == IF k = 0 THEN n % 2 ELSE BitOf(n \div 2, k - 1)

\* The whole number n
Whole(n) ==
    Bits([i \in 1..Width |->
             IF i <= Width - FracBits THEN BitOf(n, Width - FracBits - i) ELSE 0])

CarryInto(a, b, i) ==
    \E j \in (i + 1)..Width :
       /\ a[j] + b[j] = 2
       /\ \A k \in (i + 1)..(j - 1) : a[k] + b[k] = 1

Add(a, b) ==
    Bits([i \in 1..Width |->
             (a[i] + b[i] + (IF CarryInto(a, b, i) THEN 1 ELSE 0)) % 2])

BorrowFrom(a, b, i) ==
    \E j \in (i + 1)..Width :
       /\ a[j] < b[j]
       /\ \A k \in (i + 1)..(j - 1) : a[k] = b[k]

\* a - b for a >= b
Sub(a, b) ==
    Bits([i \in 1..Width |->
             (2 + a[i] - b[i] - (IF BorrowFrom(a, b, i) THEN 1 ELSE 0)) % 2])

\* a * n for a whole number n
RECURSIVE Times(_, _)
Times(a, n) ==
    IF n = 0 THEN Zero
    ELSE LET half == Times(a, n \div 2)
             twice == Add(half, half)
         IN IF n % 2 = 1 THEN Add(twice, a) ELSE twice

Less(a, b) ==
    \E i \in 1..Width : a[i] < b[i] /\ \A j \in 1..(i - 1) : a[j] = b[j]

\* Math.min
Least(a, b) == IF Less(b, a) THEN b ELSE a

RECURSIVE WholePart(_, _)
WholePart(a, i) == IF i = 0 THEN 0 ELSE 2 * WholePart(a, i - 1) + a[i]

\* Math.floor
Floor(a) == WholePart(a, Width - FracBits)

\* The double nearest to the exact number a, a tie going to the even one
Nearest(a) ==
    IF a = Zero THEN a
    ELSE LET first == CHOOSE i \in 1..Width : a[i] = 1 /\ \A j \in 1..(i - 1) : a[j] = 0
             last == first + MantissaBits - 1
         IN IF last >= Width THEN a
            ELSE LET kept == Bits([i \in 1..Width |-> IF i <= last THEN a[i] ELSE 0])
                     ulp == Bits([i \in 1..Width |-> IF i = last THEN 1 ELSE 0])
                     more == \E j \in (last + 2)..Width : a[j] = 1
                     up == a[last + 1] = 1 /\ (more \/ a[last] = 1)
                 IN IF up THEN Add(kept, ulp) ELSE kept

RECURSIVE TwoToThe(_, _)
\* 2^j modulo d
TwoToThe(j, d) ==
    IF j < 8 THEN Pow2(j) % d ELSE (Pow2(8) * TwoToThe(j - 8, d)) % d

\* n / d in doubles, for whole numbers n < d: bit j after the point of the
\* exact quotient is the next digit of the long division, and what the
\* division leaves after FracBits bits only decides the rounding
Quotient(n, d) ==
    LET left(j) == (n * TwoToThe(j, d)) % d
    IN Nearest(Bits([i \in 1..Width |->
                        LET j == i - (Width - FracBits)
                        IN IF j < 1 THEN 0
                           ELSE IF j = FracBits /\ left(j) # 0 THEN 1
                           ELSE (2 * left(j - 1)) \div d]))

PollMs == 10          \* the clock advances in steps of PollMs
MaxPolls == 6         \* clock advances in a run
MaxCalls == 3         \* calls of the limiter in a run

\* getRefillRate: lines 51-53
getRefillRateDouble(rpm) == Quotient(rpm, TokenUnit)

\* refillBucket: lines 210-218.  elapsed is a whole number of ms, the
\* product and the sum are rounded as the program rounds them.
refillBucketDouble(bucket, tier, t) ==
    LET elapsed == t - bucket.lastRefill
        refillRate == getRefillRateDouble(TIER_LIMITS[tier].rpm)
        refill == Nearest(Times(refillRate, elapsed))
    IN [tokens |-> Least(Whole(TIER_LIMITS[tier].rpm),
                         Nearest(Add(bucket.tokens, refill))),
        lastRefill |-> t]

\* loadBucketState: lines 59-89
loadBucketStateDouble(saved, tier, t) ==
    IF ~saved.has
    THEN [tokens |-> Whole(TIER_LIMITS[tier].rpm), lastRefill |-> t]
    ELSE [tokens |-> Least(saved.tokens, Whole(TIER_LIMITS[tier].rpm)),
          lastRefill |-> saved.lastRefill]

\* saveBucketState: lines 91-103.  JSON.stringify writes the shortest
\* decimal that reads back as the same double, so JSON.parse returns the
\* tokens that were written.
saveBucketStateDouble(bucket) ==
    [has |-> TRUE, tokens |-> bucket.tokens, lastRefill |-> bucket.lastRefill]

\* new RateLimiter([key]) at time t on the storage saved: lines 160-177
NewBucketDouble(saved, tier, t) ==
    refillBucketDouble(loadBucketStateDouble(saved, tier, t), tier, t)

RestartStep(r) ==
    /\ restart' = r
    /\ UNCHANGED <<limiterVars, probeVars, orchVars, extracted, retry, planned, acquire>>

\* The limiter is constructed for one credential on an empty storage
RestartConstruct ==
    /\ restart.pc = "idle"
    /\ \E tier \in Tiers :
          RestartStep([NoRestart EXCEPT
                          !.pc = "live",
                          !.tier = tier,
                          !.bucket = NewBucketDouble(NoRestart.saved, tier, 0)])

\* Date.now() moves on
RestartTick ==
    /\ restart.pc = "live"
    /\ restart.clock < MaxPolls * PollMs
    /\ RestartStep([restart EXCEPT !.clock = @ + PollMs])

\* A refill that is not saved: getBestKey (line 256), getWaitTime (line 332)
\* or getKeyStatuses (line 355)
RestartPoll ==
    /\ restart.pc = "live"
    /\ restart.calls < MaxCalls
    /\ RestartStep([restart EXCEPT
                       !.calls = @ + 1,
                       !.bucket = refillBucketDouble(@, restart.tier, restart.clock)])

\* consumeRequest: lines 275-302
RestartConsume ==
    /\ restart.pc = "live"
    /\ restart.calls < MaxCalls
    /\ LET bucket == refillBucketDouble(restart.bucket, restart.tier, restart.clock)
       IN IF Less(bucket.tokens, Whole(1))
          THEN RestartStep([restart EXCEPT !.calls = @ + 1, !.bucket = bucket])
          ELSE LET taken == [bucket EXCEPT !.tokens = Nearest(Sub(@, Whole(1)))]
               IN RestartStep([restart EXCEPT
                                  !.calls = @ + 1,
                                  !.bucket = taken,
                                  !.saved = saveBucketStateDouble(taken)])

\* markExhausted: lines 308-315
RestartMarkExhausted ==
    /\ restart.pc = "live"
    /\ restart.calls < MaxCalls
    /\ LET bucket == [tokens |-> Zero, lastRefill |-> restart.clock]
       IN RestartStep([restart EXCEPT
                          !.calls = @ + 1,
                          !.bucket = bucket,
                          !.saved = saveBucketStateDouble(bucket)])

InitRestart ==
    /\ OrchIdle
    /\ UnitIdle
    /\ now = T0
    /\ localStorage = [bucket |-> EmptyMap, daily |-> EmptyMap]
    /\ rateLimiterInstance = NoInstance
    /\ lastOp = NoOp
    /\ opSeq = 0
    /\ ticks = 0

NextRestart ==
    \/ RestartConstruct
    \/ RestartTick
    \/ RestartPoll
    \/ RestartConsume
    \/ RestartMarkExhausted

SpecRestart == InitRestart /\ [][NextRestart]_vars

\* availableTokens of getKeyStatuses, lines 355-358, at the present time:
\* of the limiter in memory, and of a limiter constructed now on the storage
ReportedInMemory ==
    Floor(refillBucketDouble(restart.bucket, restart.tier, restart.clock).tokens)

ReportedRestarted ==
    Floor(refillBucketDouble(NewBucketDouble(restart.saved, restart.tier, restart.clock),
                             restart.tier, restart.clock).tokens)

\* C40: a limiter constructed now from what the last consumeRequest or
\* markExhausted saved reports as many tokens as the limiter in memory that
\* saved it, whatever refills the latter has made since.
C40_RestartReportsSame ==
    (restart.pc = "live" /\ restart.saved.has) => ReportedRestarted = ReportedInMemory
====
